---- MODULE Spec2Model ----
(***************************************************************************)
(* A model of the BMC installer's flash engine: the NAND abstraction and   *)
(* its in-memory simulator (src/src/nand/mod.rs), the block scanner        *)
(* (src/src/ubi/scan.rs), the formatter and the volume writer              *)
(* (src/src/ubi/format.rs), the ubinizer (src/src/ubi/ubinize.rs) and the  *)
(* raw image writer (src/src/format/raw.rs).                               *)
(*                                                                         *)
(* A page is a tuple whose first element names what the page's bytes       *)
(* decode to: <<"ec", ec, vid_hdr_offset, data_offset, image_seq>> is a    *)
(* page holding a valid EC header, <<"vid", ...>> a valid VID header, and  *)
(* <<"raw", b1, ..., bn>> any other content, byte by byte (255 = 0xFF).    *)
(* Block indices and page indices are 0-based, as in the source.           *)
(***************************************************************************)
EXTENDS Integers, Sequences, FiniteSets, TLC

VARIABLES
    nand,       \* SimNand.blocks: block index -> [data, marked_bad]
    ebt,        \* the Ebt of the running installer (<<>> before the scan)
    fpc,        \* position of the format pipeline
    proto,      \* format(): the prototype EC header of the current run
    migrating,  \* format(): needs_migration of the current run
    work,       \* format(): the remaining work deque, front first
    ebt0,       \* history: the Ebt format() was entered with
    execLog,    \* history: the work items executed by the current run
    fres,       \* result of the last format(): "none", "ok" or "err"
    round,      \* number of format() calls started
    prevScan,   \* history: the Ebt scanned after the previous Ok format
    lastScan,   \* history: the Ebt scanned after the latest Ok format
    budget,     \* device failures that may still be injected
    failed,     \* history: blocks on which a failure was injected in this run
    lastOps,    \* history: the NAND operations of the last action executed, or of
                \* the last iteration of write_volumes' program loop
    cuts,       \* power cuts so far
    image,      \* write_raw_image: the bytes of the stream `image`
    skip_bad,   \* write_raw_image: its parameter
    pos,        \* write_raw_image: bytes of `image` consumed so far
    data,       \* write_raw_image: the chunk read for the current block
    block_index,\* write_raw_image: its block cursor
    attempt,    \* write_raw_image: iterations of `for _ in 0..5` done on the block
    rpc,        \* position of the raw writer
    rres,       \* result of the last write_raw_image: "none", "ok", "err" or "cut"
    rrun,       \* number of write_raw_image calls started after the last power cut
    rops,       \* history: erase and program calls of the current run
    placed,     \* history: <<block, chunk>> for every update that returned Ok
    doneBefore, \* history: blocks the run cut by power loss had completed
    volumes,    \* write_volumes: its parameter, a sequence of BasicVolumes
    ubinizer,   \* write_volumes: the Ubinizer (<<>> before it is created)
    blocks_by_ec, \* write_volumes: the BTreeMap ec -> blocks behind block_ordering
    bucket,     \* write_volumes: blocks of the bucket block_ordering is flattening
    vdata,      \* write_volumes: the pages of its buffer `data`, VID page first
    vvid,       \* write_volumes: the Vid of the LEB being written (<<>> if none)
    block_id,   \* write_volumes: the physical block selected
    sel_ec,     \* write_volumes: `ec`, the EC header of the selected block at selection
    tried_erase,\* write_volumes: its flag
    vpc,        \* position of write_volumes
    vres,       \* result of write_volumes: "none", "ok", "err" or "panic"
    vlog,       \* history: <<block, vid>> of every program that succeeded, in order
    badLog,     \* history: <<block, vid>> of every block given up as bad
    top,        \* history: block -> the highest pages programmed since its last erase
    superblock, \* erofs_size: the fields of the superblock read from `input`
    erofs_result, \* erofs_size: what it returned (<<>> before the call)
    entry,      \* the install loop that runs: "sdcard" (main) or "upgrade_bmc"
    ipc,        \* position of the install loop
    itask,      \* install loop: index of the current task in `tasks`, from 1
    running,    \* install loop: the current task has been called and not returned
    taskLog,    \* history: <<task, result>> for every task that returned
    led,        \* the messages sent on led_tx, in order
    ops,        \* history: the task of every NAND erase or program issued
    purge_index,\* purge_boot0: block_index of its loop
    any_erased, \* purge_boot0: its flag
    ppc,        \* position of purge_boot0
    pres,       \* what purge_boot0 returned: <<"Ok", bool>> or Err (<<>> before)
    prun,       \* number of purge_boot0 calls started
    purged,     \* history: the blocks the current call erased
    nand0,      \* history: the NAND the current call was entered with
    prevPurged, \* history: <<the blocks the previous call erased>> if it returned Ok
    threads,    \* wait_for_confirmation: threads[t] is Some (TRUE) or taken (FALSE)
    cpc,        \* position of each confirmation thread (1 prompt, 2 keypress)
    cret,       \* what confirm_prompt / confirm_keypress returned (<<>> before)
    stop_flag,  \* signals.0
    token,      \* the park token of the main thread
    wpc,        \* position of the main thread in wait_for_confirmation
    widx,       \* wait_for_confirmation: index of `thread` in `for thread in ...`
    early       \* history: the unparks made before the first park returned

\* The state shared by all pipelines: the device, its failures, power cuts
devvars == <<nand, budget, cuts>>

\* The format pipeline's own state
fvars == <<ebt, fpc, proto, migrating, work, ebt0, execLog, fres, round,
           prevScan, lastScan, failed, lastOps>>

\* The raw writer's own state
rawvars == <<image, skip_bad, pos, data, block_index, attempt, rpc, rres, rrun, rops,
             placed, doneBefore>>

\* The volume writer's own state (it shares the Ebt with the formatter)
volvars == <<volumes, ubinizer, blocks_by_ec, bucket, vdata, vvid, block_id, sel_ec,
             tried_erase, vpc, vres, vlog, badLog>>

\* The EROFS size probe's own state
imgvars == <<superblock, erofs_result>>

\* The install loop's own state
instvars == <<entry, ipc, itask, running, taskLog, led, ops>>

\* purge_boot0's own state
purgevars == <<purge_index, any_erased, ppc, pres, prun, purged, nand0, prevPurged>>

\* wait_for_confirmation's own state
confvars == <<threads, cpc, cret, stop_flag, token, wpc, widx, early>>

\* The state of the parts that are exercised on their own
xvars == <<imgvars, instvars, purgevars, confvars>>

\* The history kept when the NAND operations are exercised on their own, and the
\* state of the other stand-alone parts
opvars == <<top, xvars>>

vars == <<devvars, fvars, rawvars, volvars, opvars>>

(***************************************************************************)
(* Bounds of the model.                                                    *)
(***************************************************************************)
MaxBlocks == 4        \* layouts of 1..MaxBlocks blocks
PagesPerBlock == 5    \* NandLayout.pages_per_block of the UBI partition
BytesPerPage == 2     \* NandLayout.bytes_per_page
MaxFaults == 1        \* injected erase/program/mark_bad failures per behaviour
MaxCuts == 1          \* power cuts per behaviour
MaxRounds == 2        \* format() calls per behaviour
BootBlocks == 3       \* NandLayout.blocks of the boot partition
BootPagesPerBlock == 3 \* NandLayout.pages_per_block of the boot partition
MaxImagePages == 4    \* whole pages of the bootloader image, at most
MaxRuns == 2          \* write_raw_image calls in a row
UbiBytesPerPage == 172 \* NandLayout.bytes_per_page when volumes are written

(***************************************************************************)
(* Program constants.                                                      *)
(***************************************************************************)
SCAN_PAGE_CHUNKS == 4
ATTEMPTS == 5
PERCENTILE == 25
UBI_LAYOUT_VOLUME_ID == 2147479551
UBI_LAYOUT_VOLUME_TYPE == "Dynamic"
UBI_LAYOUT_VOLUME_EBS == 2
UBI_LAYOUT_VOLUME_COMPAT == 5
UBI_VTBL_RECORD_SIZE == 172
UBI_MAX_VOLUMES == 128

None == <<>>
Some(x) == <<x>>

\* The Err of an anyhow::Result<Option<_>>, distinct from Ok(None) and Ok(Some(x))
Err == <<"Err", "anyhow::Error">>
IsErr(r) == Len(r) = 2

(***************************************************************************)
(* Pages and the header codec.                                             *)
(***************************************************************************)
ErasedPage == <<"raw">> \o [i \in 1..BytesPerPage |-> 255]
DataPage(b) == <<"raw">> \o [i \in 1..BytesPerPage |-> b]

\* PageUtil::is_erased
is_erased(page) == page[1] = "raw" /\ \A i \in 2..Len(page) : page[i] = 255

\* headers::Ec
Ec(ec, vho, dof, seq) ==
    [ec |-> ec, vid_hdr_offset |-> vho, data_offset |-> dof, image_seq |-> seq]

\* Ec::ec
with_ec(x, ec) == [x EXCEPT !.ec = ec]

\* An inc_ec that leaves the erase counter as it is
inc_ec_noop(x) == x

\* Ec::inc_ec
inc_ec(x) == [x EXCEPT !.ec = @ + 1]

\* Ec::encode
EcEncode(x) == <<"ec", x.ec, x.vid_hdr_offset, x.data_offset, x.image_seq>>

\* Ec::decode
EcDecode(page) ==
    IF page[1] = "ec" THEN Some(Ec(page[2], page[3], page[4], page[5])) ELSE None

\* headers::Vid
Vid(vol_type, compat, vol_id, lnum, data_size, used_ebs, sqnum) ==
    [vol_type |-> vol_type, compat |-> compat, vol_id |-> vol_id, lnum |-> lnum,
     data_size |-> data_size, used_ebs |-> used_ebs, sqnum |-> sqnum]

\* Vid::encode (vol_type is stored as 1 = Dynamic, 2 = Static)
VidEncode(v) ==
    <<"vid", IF v.vol_type = "Static" THEN 2 ELSE 1, v.compat, v.vol_id, v.lnum,
      v.data_size, v.used_ebs, v.sqnum>>

\* Vid::decode
VidDecode(page) ==
    IF page[1] = "vid" /\ page[2] \in {1, 2}
    THEN Some(Vid(IF page[2] = 2 THEN "Static" ELSE "Dynamic", page[3], page[4],
                  page[5], page[6], page[7], page[8]))
    ELSE None

(***************************************************************************)
(* The simulated NAND.                                                     *)
(***************************************************************************)
\* SimBlock::new
NewBlock == [data |-> <<>>, marked_bad |-> FALSE]

\* SimBlock::read_page on a block of ppb pages: Err when the page index is out of
\* bounds, else the page, erased when it lies beyond the written area
read_page(blk, ppb, index) ==
    IF ~(index < ppb) THEN <<"Err", "page index out of bounds">>
    ELSE IF index < Len(blk.data) THEN blk.data[index + 1] ELSE ErasedPage

\* A program that checks nothing and writes nothing
write_pages_unchecked(written, ppb, page, content) == [ok |-> TRUE, data |-> written]

RECURSIVE write_pages(_, _, _, _)
\* NandBlock::program over SimBlock::write_page: the pages of `content` are written
\* one by one from start_page; the first page that is out of bounds or inside the
\* written area stops the program with an error.  [ok, data]
write_pages(written, ppb, page, content) ==
    IF content = <<>> THEN [ok |-> TRUE, data |-> written]
    ELSE IF ~(page < ppb) \/ ~(page >= Len(written))
         THEN [ok |-> FALSE, data |-> written]
    ELSE write_pages(
            IF is_erased(Head(content)) THEN written
            ELSE written \o [i \in 1..(page - Len(written)) |-> ErasedPage]
                         \o <<Head(content)>>,
            ppb, page + 1, Tail(content))

program(blk, ppb, start_page, content) ==
    LET r == write_pages(blk.data, ppb, start_page, content)
    IN [ok |-> r.ok, blk |-> [blk EXCEPT !.data = r.data]]

\* NandBlock::erase
erase(blk) == [blk EXCEPT !.data = <<>>]

\* A mark_bad that erases the block and leaves it good
mark_bad_forgotten(blk) == erase(blk)

\* NandBlock::mark_bad
mark_bad(blk) == [erase(blk) EXCEPT !.marked_bad = TRUE]

\* A Nand::block that hands out blocks marked bad as well
block_ignoring_marks(n, index) ==
    IF index \notin DOMAIN n THEN Err ELSE Some(n[index])

\* Nand::block: Err out of range, None for a block marked bad
block(n, index) ==
    IF index \notin DOMAIN n THEN Err
    ELSE IF n[index].marked_bad THEN None ELSE Some(n[index])

(***************************************************************************)
(* The scanner.                                                            *)
(***************************************************************************)
Bad == <<"Bad">>
Erased == <<"Erased">>
Garbage == <<"Garbage">>
EcErased(x) == <<"EcErased", x>>
EcData(x, v) == <<"EcData", x, v>>
RawVid(v) == <<"RawVid", v>>

IsRawVid(c) == c[1] = "RawVid"
HasEc(c) == c[1] \in {"EcErased", "EcData"}

RECURSIVE scan_pages(_, _, _, _)
\* BlockContent::scan_block, page by page; echdr is the Option<Ec> found so far
scan_pages(blk, ppb, page, echdr) ==
    IF page >= ppb \/ (page > 0 /\ page % SCAN_PAGE_CHUNKS = 0 /\ echdr # None)
    THEN IF echdr = None THEN Erased ELSE EcErased(echdr[1])
    ELSE LET p == read_page(blk, ppb, page) IN
         IF page = 0 /\ VidDecode(p) # None THEN RawVid(VidDecode(p)[1])
         ELSE IF page = 0 /\ EcDecode(p) # None
              THEN scan_pages(blk, ppb, page + 1, EcDecode(p))
         ELSE IF ~is_erased(p)
              THEN IF echdr = None THEN Garbage
                   ELSE EcData(echdr[1], IF page = 1 THEN VidDecode(p) ELSE None)
         ELSE scan_pages(blk, ppb, page + 1, echdr)

\* A scan that does not look at page 0
scan_block_from_page_1(blk, ppb) == scan_pages(blk, ppb, 1, None)

\* BlockContent::scan_block
scan_block(blk, ppb) == scan_pages(blk, ppb, 0, None)

\* scan_blocks
scan_blocks(n, ppb) ==
    [i \in DOMAIN n |-> IF n[i].marked_bad THEN Bad ELSE scan_block(n[i], ppb)]

(***************************************************************************)
(* The formatter.                                                          *)
(***************************************************************************)
Ignore == <<"Ignore">>
Write(x) == <<"Write", x>>
Erase(x) == <<"Erase", x>>

\* erase_action without the arm that ignores blocks already matching the prototype
erase_action_no_skip(content, ec_proto) ==
    IF content = Bad THEN Ignore
    ELSE IF content = Erased THEN Write(ec_proto)
    ELSE IF HasEc(content) THEN Erase(with_ec(ec_proto, content[2].ec + 1))
    ELSE Erase(ec_proto)

\* An erase_action that keeps the erase count of a block it erases
erase_action_same_ec(content, ec_proto) ==
    IF content = Bad THEN Ignore
    ELSE IF content[1] = "EcErased" /\ content[2] = with_ec(ec_proto, content[2].ec)
         THEN Ignore
    ELSE IF content = Erased THEN Write(ec_proto)
    ELSE IF HasEc(content) THEN Erase(with_ec(ec_proto, content[2].ec))
    ELSE Erase(ec_proto)

\* erase_action
erase_action(content, ec_proto) ==
    IF content = Bad THEN Ignore
    ELSE IF content[1] = "EcErased" /\ content[2] = with_ec(ec_proto, content[2].ec)
         THEN Ignore
    ELSE IF content = Erased THEN Write(ec_proto)
    ELSE IF HasEc(content) THEN Erase(with_ec(ec_proto, content[2].ec + 1))
    ELSE Erase(ec_proto)

\* odd_action without the copy of the even block's erase count
odd_action_nocopy(even, odd, ec_proto) ==
    IF odd = Bad THEN Ignore
    ELSE IF odd[1] = "EcErased" /\ odd[2] = with_ec(ec_proto, odd[2].ec) THEN Ignore
    ELSE IF HasEc(odd) THEN Erase(with_ec(ec_proto, odd[2].ec + 1))
    ELSE IF odd = Erased THEN Write(ec_proto)
    ELSE Erase(ec_proto)

\* odd_action giving a block it erases the even block's erase count unchanged
odd_action_same_ec(even, odd, ec_proto) ==
    IF odd = Bad THEN Ignore
    ELSE IF odd[1] = "EcErased" /\ odd[2] = with_ec(ec_proto, odd[2].ec) THEN Ignore
    ELSE IF HasEc(odd) THEN Erase(with_ec(ec_proto, odd[2].ec + 1))
    ELSE IF HasEc(even) /\ odd = Erased THEN Write(with_ec(ec_proto, even[2].ec))
    ELSE IF HasEc(even) THEN Erase(with_ec(ec_proto, even[2].ec))
    ELSE IF odd = Erased THEN Write(ec_proto)
    ELSE Erase(ec_proto)

\* the odd block's arm of migrate_superblock_action
odd_action(even, odd, ec_proto) ==
    IF odd = Bad THEN Ignore
    ELSE IF odd[1] = "EcErased" /\ odd[2] = with_ec(ec_proto, odd[2].ec) THEN Ignore
    ELSE IF HasEc(odd) THEN Erase(with_ec(ec_proto, odd[2].ec + 1))
    ELSE IF HasEc(even) /\ odd = Erased THEN Write(with_ec(ec_proto, even[2].ec))
    ELSE IF HasEc(even) THEN Erase(with_ec(ec_proto, even[2].ec + 1))
    ELSE IF odd = Erased THEN Write(ec_proto)
    ELSE Erase(ec_proto)

\* A migration that plans the odd block like the even one, by its own state alone
migrate_superblock_action_plain(even, odd, ec_proto) ==
    <<erase_action(even, ec_proto), erase_action(odd, ec_proto)>>

\* migrate_superblock_action: the actions of the even and of the odd block
migrate_superblock_action(even, odd, ec_proto) ==
    <<erase_action(even, ec_proto), odd_action(even, odd, ec_proto)>>

RECURSIVE SumEc(_, _)
SumEc(e, S) ==
    IF S = {} THEN 0
    ELSE LET i == CHOOSE j \in S : TRUE IN e[i][2].ec + SumEc(e, S \ {i})

EcBlocks(e) == {i \in DOMAIN e : HasEc(e[i])}
Tally(e, seq) == Cardinality({i \in EcBlocks(e) : e[i][2].image_seq = seq})

\* compute_prototype, image_seq: max_by_key over a HashMap returns one of the most
\* frequent keys, which one being decided by the map's iteration order
ModeSeqs(e) ==
    IF EcBlocks(e) = {} THEN {0}
    ELSE {e[i][2].image_seq : i \in {j \in EcBlocks(e) :
              \A k \in EcBlocks(e) :
                  Tally(e, e[k][2].image_seq) <= Tally(e, e[j][2].image_seq)}}

\* The mean rounded down instead of to the nearest integer
MeanEcTruncated(e) ==
    LET count == Cardinality(EcBlocks(e)) IN
    IF count = 0 THEN 1 ELSE SumEc(e, EcBlocks(e)) \div count

\* compute_prototype, ec: (ec_sum + ec_count / 2).checked_div(ec_count).unwrap_or(1)
MeanEc(e) ==
    LET count == Cardinality(EcBlocks(e)) IN
    IF count = 0 THEN 1 ELSE (SumEc(e, EcBlocks(e)) + count \div 2) \div count

\* compute_prototype, for each image_seq the HashMap may yield
compute_prototype(page_size, e) ==
    {Ec(MeanEc(e), page_size, page_size * 2, seq) : seq \in ModeSeqs(e)}

\* ebt.len()
NumBlocks(e) == Cardinality(DOMAIN e)

\* i ^ 1
Sibling(i) == IF i % 2 = 0 THEN i + 1 ELSE i - 1

\* is_vid looking at the block alone, not at its superblock sibling
is_vid_own(e, i) == IsRawVid(e[i])

\* format(): is_vid
is_vid(e, i) == IsRawVid(e[i]) \/ IsRawVid(e[Sibling(i)])

\* format(): chunks_exact(2).flat_map(migrate_superblock_action).enumerate():
\* the action of block i, for i below the last whole pair
PairAction(e, p, i) ==
    LET even == e[i - (i % 2)]
        odd == e[i - (i % 2) + 1]
    IN migrate_superblock_action(even, odd, p)[(i % 2) + 1]

RECURSIVE MigrationWork(_, _, _, _)
\* format(): the deque built by the migration loop, items i.. being still to place
MigrationWork(e, p, i, deque) ==
    IF i >= 2 * (NumBlocks(e) \div 2) THEN deque
    ELSE LET action == PairAction(e, p, i) IN
         IF action = Ignore THEN MigrationWork(e, p, i + 1, deque)
         ELSE IF is_vid(e, i)
              THEN MigrationWork(e, p, i + 1, Append(deque, <<i, action>>))
              ELSE MigrationWork(e, p, i + 1, <<<<i, action>>>> \o deque)

RECURSIVE PlainWork(_, _, _)
\* format(): the plain erase plan, in block order
PlainWork(e, p, i) ==
    IF i >= NumBlocks(e) THEN <<>>
    ELSE LET action == erase_action(e[i], p) IN
         IF action = Ignore THEN PlainWork(e, p, i + 1)
         ELSE <<<<i, action>>>> \o PlainWork(e, p, i + 1)

\* format(): needs_migration
needs_migration(e) == \E i \in DOMAIN e : IsRawVid(e[i])

\* format(): the work deque
FormatWork(e, p) ==
    IF needs_migration(e) THEN MigrationWork(e, p, 0, <<>>) ELSE PlainWork(e, p, 0)

RECURSIVE execute_retrying(_, _, _, _)
\* An execute that, when the program after a successful erase fails, erases and
\* programs once more before it gives the block up
execute_retrying(action, blk, content, left) ==
    IF action = Ignore
    THEN {[blk |-> blk, content |-> content, ok |-> TRUE, used |-> 0, ops |-> <<>>]}
    ELSE
    LET erasing == action[1] = "Erase"
        ec == action[2]
        blk1 == IF erasing THEN erase(blk) ELSE blk
        eops == IF erasing THEN <<<<"erase", TRUE>>>> ELSE <<>>
        r == program(blk1, PagesPerBlock, 0, <<EcEncode(ec)>>)
        done == [blk |-> r.blk, content |-> EcErased(ec), ok |-> TRUE, used |-> 0,
                 ops |-> eops \o <<<<"program", TRUE>>>>]
        failing == eops \o <<<<"program", FALSE>>>>
    IN (IF erasing /\ left >= 1
        THEN {[blk |-> mark_bad(blk), content |-> Bad, ok |-> TRUE, used |-> 1,
               ops |-> <<<<"erase", FALSE>>, <<"mark_bad", TRUE>>>>]}
        ELSE {})
       \cup (IF r.ok THEN {done} ELSE {})
       \cup (IF left >= 1 /\ ~erasing
             THEN {[o EXCEPT !.used = @ + 1, !.ops = failing \o @] :
                      o \in execute_retrying(Erase(inc_ec(ec)), blk1, content, left - 1)}
             ELSE {})
       \cup (IF left >= 1 /\ erasing
             THEN {[done EXCEPT !.used = 1, !.ops = failing \o @]}
             ELSE {})
       \cup (IF left >= 2 /\ erasing
             THEN {[blk |-> mark_bad(blk1), content |-> Bad, ok |-> TRUE, used |-> 2,
                    ops |-> failing \o failing \o <<<<"mark_bad", TRUE>>>>]}
             ELSE {})

RECURSIVE execute(_, _, _, _)
\* FormatAction::execute on a block handle: the set of possible outcomes
\* [blk, content, ok, used, ops], `left` being the device failures that may still
\* be injected, `used` those this call consumed and `ops` the NAND operations it
\* issued, each with its result.
execute(action, blk, content, left) ==
    IF action = Ignore
    THEN {[blk |-> blk, content |-> content, ok |-> TRUE, used |-> 0, ops |-> <<>>]}
    ELSE
    LET erasing == action[1] = "Erase"
        ec == action[2]
        \* erase() returned an error: the block is bad
        EraseFailed ==
            IF erasing /\ left >= 1
            THEN {[blk |-> mark_bad(blk), content |-> Bad, ok |-> TRUE, used |-> 1,
                   ops |-> <<<<"erase", FALSE>>, <<"mark_bad", TRUE>>>>]}
                 \cup (IF left >= 2
                       THEN {[blk |-> blk, content |-> Bad, ok |-> FALSE, used |-> 2,
                              ops |-> <<<<"erase", FALSE>>, <<"mark_bad", FALSE>>>>]}
                       ELSE {})
            ELSE {}
        blk1 == IF erasing THEN erase(blk) ELSE blk
        eops == IF erasing THEN <<<<"erase", TRUE>>>> ELSE <<>>
        r == program(blk1, PagesPerBlock, 0, <<EcEncode(ec)>>)
        Programmed ==
            IF r.ok
            THEN {[blk |-> r.blk, content |-> EcErased(ec), ok |-> TRUE, used |-> 0,
                   ops |-> eops \o <<<<"program", TRUE>>>>]}
            ELSE {}
        \* program() returned an error: of the device itself, or an injected one
        pcost == IF r.ok THEN 1 ELSE 0
        ProgramFailed ==
            IF left < pcost THEN {}
            ELSE IF ~erasing
            THEN {[o EXCEPT !.used = @ + pcost, !.ops = <<<<"program", FALSE>>>> \o @] :
                     o \in execute(Erase(inc_ec(ec)), blk1, content, left - pcost)}
            ELSE {[blk |-> mark_bad(blk1), content |-> Bad, ok |-> TRUE, used |-> pcost,
                   ops |-> eops \o <<<<"program", FALSE>>, <<"mark_bad", TRUE>>>>]}
                 \cup (IF left >= pcost + 1
                       THEN {[blk |-> blk1, content |-> Bad, ok |-> FALSE,
                              used |-> pcost + 1,
                              ops |-> eops \o <<<<"program", FALSE>>,
                                                <<"mark_bad", FALSE>>>>]}
                       ELSE {})
    IN EraseFailed \cup Programmed \cup ProgramFailed

(***************************************************************************)
(* The format pipeline: scan_blocks, format, scan_blocks, format, ...      *)
(***************************************************************************)
\* The raw writer is not running
RawIdle ==
    /\ image = <<>> /\ skip_bad = FALSE /\ pos = 0 /\ data = <<>>
    /\ block_index = 0 /\ attempt = 0 /\ rpc = "idle" /\ rres = "none"
    /\ rrun = 0 /\ rops = <<>> /\ placed = <<>> /\ doneBefore = {}

\* The volume writer is not running
VolIdle ==
    /\ volumes = <<>> /\ ubinizer = <<>> /\ blocks_by_ec = <<>> /\ bucket = <<>>
    /\ vdata = <<>> /\ vvid = <<>> /\ block_id = 0 /\ sel_ec = <<>>
    /\ tried_erase = FALSE /\ vpc = "idle" /\ vres = "none" /\ vlog = <<>>
    /\ badLog = <<>>

\* The NAND operations are not being exercised on their own
ImgIdle == superblock = <<>> /\ erofs_result = <<>>

InstIdle ==
    /\ entry = "" /\ ipc = "" /\ itask = 0 /\ running = FALSE
    /\ taskLog = <<>> /\ led = <<>> /\ ops = <<>>

PurgeIdle ==
    /\ purge_index = 0 /\ any_erased = FALSE /\ ppc = "" /\ pres = <<>> /\ prun = 0
    /\ purged = {} /\ nand0 = <<>> /\ prevPurged = <<>>

\* wait_for_confirmation is not running
ConfIdle ==
    /\ threads = <<>> /\ cpc = <<>> /\ cret = <<>> /\ stop_flag = FALSE
    /\ token = FALSE /\ wpc = "" /\ widx = 0 /\ early = 0

XIdle == ImgIdle /\ InstIdle /\ PurgeIdle /\ ConfIdle

OpIdle == top = <<>> /\ XIdle

\* Initial contents of a block of the UBI partition
GoodVho == BytesPerPage
GoodDof == 2 * BytesPerPage
EcA == Ec(5, GoodVho, GoodDof, 7)
EcB == Ec(2, 2 * GoodVho, 2 * GoodDof, 7)
EcC == Ec(8, GoodVho, GoodDof, 3)
OldVid == Vid("Dynamic", 0, 0, 0, 0, 0, 4)
Filler(n) == [i \in 1..n |-> ErasedPage]

InitBlocks ==
    { mark_bad(NewBlock),                                         \* Bad
      NewBlock,                                                   \* Erased
      [NewBlock EXCEPT !.data = <<EcEncode(EcA)>>],               \* EcErased, proto layout
      [NewBlock EXCEPT !.data = <<EcEncode(EcB)>>],               \* EcErased, legacy layout
      [NewBlock EXCEPT !.data = <<EcEncode(EcA), VidEncode(OldVid), DataPage(1)>>],
      [NewBlock EXCEPT !.data = <<VidEncode(OldVid), DataPage(1)>>],   \* RawVid
      [NewBlock EXCEPT !.data = <<ErasedPage, DataPage(1)>>],     \* Garbage
      \* an EC header, erased pages up to the end of the first scan chunk, then data
      [NewBlock EXCEPT !.data =
          <<EcEncode(EcC)>> \o Filler(SCAN_PAGE_CHUNKS - 1) \o <<DataPage(1)>>] }

FInitCommon ==
    /\ \E n \in 1..MaxBlocks : nand \in [0..(n - 1) -> InitBlocks]
    /\ ebt = <<>>
    /\ fpc = "scan"
    /\ proto = None
    /\ migrating = FALSE
    /\ work = <<>>
    /\ ebt0 = <<>>
    /\ execLog = <<>>
    /\ fres = "none"
    /\ round = 0
    /\ prevScan = <<>>
    /\ lastScan = <<>>
    /\ failed = {}
    /\ lastOps = <<>>
    /\ cuts = 0
    /\ RawIdle
    /\ VolIdle
    /\ OpIdle

\* The device may fail; power stays on
FInit == FInitCommon /\ budget = MaxFaults

\* The device never fails; power may be cut
FCutInit == FInitCommon /\ budget = 0

\* scan_blocks.  The Ebt is indexed 0..blocks-1 like the source's slice.
Scan ==
    /\ fpc = "scan"
    /\ ebt' = scan_blocks(nand, PagesPerBlock)
    /\ IF fres = "ok"
       THEN prevScan' = lastScan /\ lastScan' = Some(ebt')
       ELSE UNCHANGED <<prevScan, lastScan>>
    /\ fpc' = IF round < MaxRounds THEN "format" ELSE "end"
    /\ UNCHANGED <<nand, proto, migrating, work, ebt0, execLog, fres, round, budget,
                   failed, lastOps, cuts>>
    /\ UNCHANGED <<rawvars, volvars, opvars>>

\* format(), up to the construction of the work deque
FormatPlan ==
    /\ fpc = "format"
    /\ \E p \in compute_prototype(BytesPerPage, ebt) :
          /\ proto' = Some(p)
          /\ work' = FormatWork(ebt, p)
    /\ migrating' = needs_migration(ebt)
    /\ ebt0' = ebt
    /\ execLog' = <<>>
    /\ failed' = {}
    /\ lastOps' = <<>>
    /\ fres' = "none"
    /\ round' = round + 1
    /\ fpc' = "exec"
    /\ UNCHANGED <<nand, ebt, prevScan, lastScan, budget, cuts>>
    /\ UNCHANGED <<rawvars, volvars, opvars>>

\* format(): one iteration of the loop over the work deque
FormatStep ==
    /\ fpc = "exec"
    /\ work # <<>>
    /\ LET b == Head(work)[1]
           action == Head(work)[2]
           h == block(nand, b)
       IN IF h = None
          THEN \* "Block unexpectedly marked bad"
               /\ fres' = "err" /\ fpc' = "end"
               /\ UNCHANGED <<nand, ebt, work, execLog, budget, failed, lastOps>>
          ELSE \E o \in execute(action, h[1], ebt[b], budget) :
               /\ nand' = [nand EXCEPT ![b] = o.blk]
               /\ ebt' = [ebt EXCEPT ![b] = o.content]
               /\ budget' = budget - o.used
               /\ failed' = IF o.used > 0 THEN failed \cup {b} ELSE failed
               /\ execLog' = Append(execLog, b)
               /\ lastOps' = o.ops
               /\ IF o.ok
                  THEN work' = Tail(work) /\ UNCHANGED <<fres, fpc>>
                  ELSE work' = work /\ fres' = "err" /\ fpc' = "end"
    /\ UNCHANGED <<proto, migrating, ebt0, round, prevScan, lastScan, cuts>>
    /\ UNCHANGED <<rawvars, volvars, opvars>>

\* format(): the work deque is exhausted, Ok(())
FormatDone ==
    /\ fpc = "exec"
    /\ work = <<>>
    /\ fres' = "ok"
    /\ fpc' = "scan"
    /\ lastOps' = <<>>
    /\ UNCHANGED <<nand, ebt, proto, migrating, work, ebt0, execLog, round,
                   prevScan, lastScan, budget, failed, cuts>>
    /\ UNCHANGED <<rawvars, volvars, opvars>>

\* Power is lost during format()'s loop: between two iterations, or inside
\* FormatAction::execute after the first k of the NAND operations it issues.  The
\* block is erased once an erase has returned; the program of the header has not
\* happened yet.  lastOps holds the operations of the interrupted execute.
PowerCut ==
    /\ fpc = "exec"
    /\ work # <<>>
    /\ cuts < MaxCuts
    /\ cuts' = cuts + 1
    /\ fres' = "cut"
    /\ fpc' = "cut"
    /\ \/ UNCHANGED <<nand, lastOps>>
       \/ LET b == Head(work)[1]
              action == Head(work)[2]
              h == block(nand, b)
          IN /\ h # None
             /\ \E o \in execute(action, h[1], ebt[b], budget) :
                \E k \in 1..(Len(o.ops) - 1) :
                   /\ lastOps' = SubSeq(o.ops, 1, k)
                   /\ nand' = IF \E j \in 1..k : o.ops[j] = <<"erase", TRUE>>
                              THEN [nand EXCEPT ![b] = erase(h[1])]
                              ELSE nand
    /\ UNCHANGED <<ebt, proto, migrating, work, ebt0, execLog, round,
                   prevScan, lastScan, budget, failed>>
    /\ UNCHANGED <<rawvars, volvars, opvars>>

\* The installer runs again after a power cut: it starts over with a scan
Restart ==
    /\ fpc = "cut"
    /\ fpc' = "scan"
    /\ ebt' = <<>>
    /\ work' = <<>>
    /\ execLog' = <<>>
    /\ round' = round - 1
    /\ UNCHANGED <<nand, proto, migrating, ebt0, fres, prevScan, lastScan, budget,
                   failed, lastOps, cuts>>
    /\ UNCHANGED <<rawvars, volvars, opvars>>

FNext == Scan \/ FormatPlan \/ FormatStep \/ FormatDone

FCutNext == Scan \/ FormatPlan \/ FormatStep \/ FormatDone \/ PowerCut \/ Restart

\* scan, format, scan, format, ... on a device that may fail
SpecFormat == FInit /\ [][FNext]_vars

\* scan, format, ... with power cuts and restarts
SpecFormatCut == FCutInit /\ [][FCutNext]_vars

(***************************************************************************)
(* Claims about the formatter.                                             *)
(***************************************************************************)
\* format() has returned Ok and its Ebt has not been rescanned yet
FormatOk == fpc = "scan" /\ fres = "ok"

SameLayout(x, y) ==
    /\ x.vid_hdr_offset = y.vid_hdr_offset
    /\ x.data_offset = y.data_offset
    /\ x.image_seq = y.image_seq

CleanEntry(c, p) ==
    c = Bad \/ (c[1] = "EcErased" /\ SameLayout(c[2], p))

\* C1: after scan_blocks and a format that returns Ok, no entry of the Ebt is RawVid
\* or Garbage, and every entry that is not Bad is EcErased with the prototype's
\* vid_hdr_offset, data_offset and image_seq, whatever the block count.
C1_FormatCleansEveryBlock ==
    FormatOk => \A i \in DOMAIN ebt : CleanEntry(ebt[i], proto[1])

\* The same for the blocks format() plans an action for: all of them under the plain
\* plan, those of whole even/odd pairs under the migration plan.
FormatCleansPlannedBlocks ==
    FormatOk =>
        \A i \in DOMAIN ebt :
            (~migrating \/ i < 2 * (NumBlocks(ebt) \div 2)) => CleanEntry(ebt[i], proto[1])

\* An odd block count under the migration plan: the last block keeps its state
LastBlockUntouched ==
    /\ FormatOk /\ migrating /\ NumBlocks(ebt) % 2 = 1
    /\ ebt[NumBlocks(ebt) - 1] = Garbage

\* C2: scan, format, scan yields the same Ebt as scan, format, scan, format, scan.
C2_FormatIdempotent ==
    (prevScan # None /\ lastScan # None) => prevScan = lastScan

\* The same on a flash with an even number of blocks
FormatIdempotentOnPairs ==
    (prevScan # None /\ lastScan # None /\ NumBlocks(nand) % 2 = 0) => prevScan = lastScan

\* Power was lost inside FormatAction::execute: the last operation issued is not
\* one that ends an execute
CutInsideExecute ==
    /\ fpc = "cut" /\ lastOps # <<>>
    /\ lastOps[Len(lastOps)] \notin {<<"program", TRUE>>, <<"mark_bad", TRUE>>,
                                     <<"mark_bad", FALSE>>}

\* Power was lost between two iterations of format()'s loop
CutBetweenActions == fpc = "cut" /\ ~CutInsideExecute

\* Power was lost inside the execute of the only planned action, after its erase:
\* the RawVid block the migration plan was chosen for is erased and holds no
\* header
CutInsideLosesRawVid ==
    /\ CutInsideExecute /\ migrating /\ execLog = <<>> /\ Len(work) = 1
    /\ ~needs_migration(scan_blocks(nand, PagesPerBlock))

\* C3: when a format that chose the migration plan is cut between two block actions
\* with a planned action still to run, a fresh scan still reports a RawVid block.
C3_CutKeepsRawVid ==
    (CutBetweenActions /\ migrating /\ execLog # <<>> /\ work # <<>>)
        => needs_migration(scan_blocks(nand, PagesPerBlock))

\* Block i was RawVid when format() was entered, or its superblock sibling was
LegacyAtEntry(i) ==
    IsRawVid(ebt0[i]) \/ (Sibling(i) \in DOMAIN ebt0 /\ IsRawVid(ebt0[Sibling(i)]))

\* C4: under the migration plan, an action on a block that was RawVid at scan time,
\* or whose sibling was, runs only after the actions on all other blocks have run.
C4_LegacyBlocksLast ==
    migrating =>
        /\ \A j \in 1..Len(execLog) : \A k \in 1..Len(work) :
              LegacyAtEntry(execLog[j]) => LegacyAtEntry(work[k][1])
        /\ \A j, k \in 1..Len(execLog) :
              (j < k /\ LegacyAtEntry(execLog[j])) => LegacyAtEntry(execLog[k])

\* A block of another superblock has been processed, then a legacy block
C4_Witness ==
    /\ migrating /\ fpc = "exec"
    /\ \E j, k \in 1..Len(execLog) :
          j < k /\ ~LegacyAtEntry(execLog[j]) /\ LegacyAtEntry(execLog[k])

\* Pairs whose even block scanned as EcData and whose odd block scanned as Erased
CopyPairs ==
    {i \in DOMAIN ebt0 :
        i % 2 = 0 /\ (i + 1) \in DOMAIN ebt0 /\ ebt0[i][1] = "EcData" /\ ebt0[i + 1] = Erased}

\* C10 as stated: after format, the odd block of every such pair is EcErased with
\* the even block's erase count.
C10_OddTakesEvenEc ==
    FormatOk =>
        \A i \in CopyPairs :
            ebt[i + 1][1] = "EcErased" /\ ebt[i + 1][2].ec = ebt0[i][2].ec

\* C10 amended: under the migration plan, when no operation on the odd block failed,
\* the odd block is EcErased with the even block's erase count.
C10_OddTakesEvenEcMigrating ==
    (FormatOk /\ migrating) =>
        \A i \in CopyPairs :
            (i + 1) \notin failed =>
                ebt[i + 1] = EcErased(with_ec(proto[1], ebt0[i][2].ec))

\* Such a pair has been migrated, the even block's count differing from the mean
C10_Witness ==
    /\ FormatOk /\ migrating
    /\ \E i \in CopyPairs :
          /\ ebt[i + 1][1] = "EcErased"
          /\ ebt[i + 1][2].ec = ebt0[i][2].ec
          /\ ebt0[i][2].ec # proto[1].ec

\* format() was entered with the legacy layout on whole pairs: every even block
\* EcData with one erase count, every odd block RawVid
LegacyScenario ==
    /\ NumBlocks(ebt0) >= 2 /\ NumBlocks(ebt0) % 2 = 0
    /\ \A i \in DOMAIN ebt0 :
          IF i % 2 = 0
          THEN ebt0[i][1] = "EcData" /\ ebt0[i][2].ec = ebt0[0][2].ec
          ELSE IsRawVid(ebt0[i])

\* C11 as stated: in the legacy scenario, no operation failing, after format every
\* even block is EcErased with erase count e + 1 and every odd block is EcErased
\* with erase count e.
C11_LegacyMigration ==
    (FormatOk /\ LegacyScenario /\ failed = {}) =>
        \A i \in DOMAIN ebt :
            /\ ebt[i][1] = "EcErased"
            /\ ebt[i][2].ec = ebt0[0][2].ec + (IF i % 2 = 0 THEN 1 ELSE 0)

\* C11 amended: in the legacy scenario, no operation failing, after format every
\* block, even or odd, is EcErased with the prototype's layout and erase count e + 1:
\* the odd block is erased too, and its erase is counted.
C11_LegacyMigrationCountsErase ==
    (FormatOk /\ LegacyScenario /\ failed = {}) =>
        \A i \in DOMAIN ebt :
            ebt[i] = EcErased(with_ec(proto[1], ebt0[0][2].ec + 1))

\* Two legacy superblocks have been migrated
C11_Witness ==
    /\ FormatOk /\ LegacyScenario /\ failed = {}
    /\ NumBlocks(ebt) = 4
    /\ \A i \in DOMAIN ebt : ebt[i][1] = "EcErased" /\ ebt[i][2].ec = ebt0[0][2].ec + 1

\* Block i scanned as EcErased with the layout fields of the current prototype
MatchesProto(i) ==
    /\ i \in DOMAIN ebt0
    /\ ebt0[i][1] = "EcErased"
    /\ SameLayout(ebt0[i][2], proto[1])

\* C12: while format runs, a block that scanned as EcErased(e) with e's
\* vid_hdr_offset, data_offset and image_seq equal to the prototype's is never
\* erased nor programmed (its content and its Ebt entry stay as they are), under
\* the plain and the migration plan, for even and odd blocks.
C12_MatchingBlocksUntouched ==
    [][fpc = "exec" =>
          \A i \in DOMAIN nand :
              MatchesProto(i) => (nand'[i] = nand[i] /\ ebt'[i] = ebt[i])]_vars

\* A migration has erased the even block of a pair and left the matching odd block
C12_Witness ==
    /\ FormatOk /\ migrating
    /\ \E i \in DOMAIN nand :
          /\ i % 2 = 1 /\ MatchesProto(i)
          /\ \E j \in 1..Len(execLog) : execLog[j] = i - 1
          /\ ebt[i] = ebt0[i]

\* C13: after format returns Ok, the Ebt it updated in place equals the Ebt that a
\* fresh scan_blocks returns for the same flash, whatever the flash held and also
\* when erase or program operations failed and blocks were marked bad.
C13_EbtMatchesRescan ==
    FormatOk => ebt = scan_blocks(nand, PagesPerBlock)

\* format returned Ok after it rewrote blocks and gave one up as bad
C13_Witness ==
    /\ FormatOk /\ failed # {}
    /\ \E i \in DOMAIN ebt : ebt[i] = Bad /\ ebt0[i] # Bad
    /\ \E i \in DOMAIN ebt : ebt[i][1] = "EcErased" /\ ebt[i] # ebt0[i]

\* The erase counts of the EC-bearing entries of an Ebt, as a bag summed up
EcSum(e) == SumEc(e, EcBlocks(e))
EcCount(e) == Cardinality(EcBlocks(e))

\* p is the prototype the claim describes for the Ebt e and the page size
PrototypeAsClaimed(p, page_size, e) ==
    /\ p.vid_hdr_offset = page_size
    /\ p.data_offset = 2 * page_size
    /\ IF EcCount(e) = 0
       THEN p.image_seq = 0 /\ p.ec = 1
       ELSE /\ \E i \in EcBlocks(e) : e[i][2].image_seq = p.image_seq
            /\ \A k \in EcBlocks(e) :
                  Tally(e, e[k][2].image_seq) <= Tally(e, p.image_seq)
            \* p.ec = floor((sum + floor(count / 2)) / count)
            /\ EcCount(e) * p.ec <= EcSum(e) + EcCount(e) \div 2
            /\ EcSum(e) + EcCount(e) \div 2 < EcCount(e) * (p.ec + 1)

\* format() was entered on a NAND whose blocks are all erased
AllErased == ebt0 # <<>> /\ \A i \in DOMAIN ebt0 : ebt0[i] = Erased

\* C21: the prototype format computes has vid_hdr_offset = page size, data_offset =
\* 2 x page size, image_seq = a most frequent image_seq of the EcErased/EcData
\* entries (0 without any) and ec = floor((sum + floor(count / 2)) / count) of their
\* erase counts (1 without any); on an all-erased NAND it has ec = 1 and
\* image_seq = 0, and when format returns Ok every block on which no operation
\* failed is EcErased with exactly that header.
C21_Prototype ==
    /\ proto # None => PrototypeAsClaimed(proto[1], BytesPerPage, ebt0)
    /\ (proto # None /\ AllErased) =>
          proto[1] = Ec(1, BytesPerPage, 2 * BytesPerPage, 0)
    /\ (FormatOk /\ AllErased) =>
          \A i \in DOMAIN ebt : i \notin failed => ebt[i] = EcErased(proto[1])

\* An all-erased NAND of several blocks has been formatted without a failure
AllErasedFormatted ==
    /\ FormatOk /\ AllErased /\ NumBlocks(ebt) >= 2 /\ failed = {}
    /\ \A i \in DOMAIN ebt : ebt[i] = EcErased(Ec(1, BytesPerPage, 2 * BytesPerPage, 0))

\* A prototype has been computed from two erase counts whose mean is not an
\* integer and two image_seq values seen once each, and format has returned Ok
C21_Witness ==
    /\ FormatOk /\ EcCount(ebt0) = 2 /\ EcSum(ebt0) % 2 = 1
    /\ 2 * proto[1].ec = EcSum(ebt0) + 1
    /\ \E i, j \in EcBlocks(ebt0) : ebt0[i][2].image_seq # ebt0[j][2].image_seq

\* The step is an iteration of format()'s loop that executes an action of kind k
ExecStep(k) ==
    /\ fpc = "exec" /\ work # <<>> /\ Head(work)[2][1] = k
    /\ execLog' # execLog

\* The block the step works on, and the header of its action
StepBlock == Head(work)[1]
StepEc == Head(work)[2][2]

\* The block holds the header x at page 0 and nothing else
HoldsOnlyEc(blk, x) == blk = [NewBlock EXCEPT !.data = <<EcEncode(x)>>]

\* The Ebt entry of the block, when it is EcErased, carries the header on flash
EntryIsOnFlash(b) ==
    ebt'[b][1] = "EcErased" =>
        EcDecode(read_page(nand'[b], PagesPerBlock, 0)) = Some(ebt'[b][2])

\* C31: executing Write(ec) programs the EC header at page 0 without erasing; if
\* that program fails the action is promoted to Erase with the erase count
\* incremented by 1 (erase, then program); on success the EBT entry becomes
\* EcErased with exactly the header that is on flash.
C31_WritePromotesToErase ==
    [][ExecStep("Write") =>
         /\ \/ \* the program succeeded: the pages after page 0 are as they were
               /\ budget' = budget
               /\ nand'[StepBlock] =
                     [nand[StepBlock] EXCEPT
                         !.data = <<EcEncode(StepEc)>> \o SubSeq(@, 2, Len(@))]
               /\ ebt'[StepBlock] = EcErased(StepEc)
            \/ \* the program failed, the erase and the program of Erase succeeded
               /\ budget' = budget - 1
               /\ HoldsOnlyEc(nand'[StepBlock], with_ec(StepEc, StepEc.ec + 1))
               /\ ebt'[StepBlock] = EcErased(with_ec(StepEc, StepEc.ec + 1))
            \/ \* the program failed, and so did the erase or the program of Erase
               /\ budget' <= budget - 2
               /\ ebt'[StepBlock] = Bad
         /\ EntryIsOnFlash(StepBlock)]_vars

\* format() has just built the work deque of a migration
MigrationPlanned == fpc = "exec" /\ migrating /\ execLog = <<>>

\* The prototype p with erase count n
ProtoWithEc(p, n) == Ec(n, p.vid_hdr_offset, p.data_offset, p.image_seq)

\* The action the claim gives the odd block of a pair
ClaimedOddAction(even, odd, p) ==
    CASE odd = Bad -> Ignore
      [] odd[1] = "EcErased" /\ SameLayout(odd[2], p) -> Ignore
      [] odd[1] = "EcErased" /\ ~SameLayout(odd[2], p) ->
             Erase(ProtoWithEc(p, odd[2].ec + 1))
      [] odd[1] = "EcData" -> Erase(ProtoWithEc(p, odd[2].ec + 1))
      [] odd = Erased ->
             IF even[1] \in {"EcErased", "EcData"}
             THEN Write(ProtoWithEc(p, even[2].ec)) ELSE Write(p)
      [] odd[1] \in {"RawVid", "Garbage"} ->
             IF even[1] \in {"EcErased", "EcData"}
             THEN Erase(ProtoWithEc(p, even[2].ec + 1)) ELSE Erase(p)

\* The action the plain plan gives a block in state c
ClaimedPlainAction(c, p) ==
    CASE c = Bad -> Ignore
      [] c[1] = "EcErased" /\ SameLayout(c[2], p) -> Ignore
      [] c[1] = "EcErased" /\ ~SameLayout(c[2], p) -> Erase(ProtoWithEc(p, c[2].ec + 1))
      [] c[1] = "EcData" -> Erase(ProtoWithEc(p, c[2].ec + 1))
      [] c = Erased -> Write(p)
      [] c[1] \in {"RawVid", "Garbage"} -> Erase(p)

\* The action the claim gives block i of a whole pair
ClaimedAction(i) ==
    IF i % 2 = 0 THEN ClaimedPlainAction(ebt[i], proto[1])
    ELSE ClaimedOddAction(ebt[i - 1], ebt[i], proto[1])

\* The work items of block i in the deque
ItemsOf(i) == {work[k][2] : k \in {j \in 1..Len(work) : work[j][1] = i}}

\* C33: under the migration plan the even block's action equals the plain-plan
\* action for its state, and the odd block's action is: Ignore if the odd block is
\* Bad or is EcErased already matching the prototype layout; Erase(proto with ec =
\* own ec + 1) if the odd block has its own EC header; otherwise, when the even
\* block has an EC header e, Write(proto with ec = e.ec) for an Erased odd block and
\* Erase(proto with ec = e.ec + 1) for a RawVid or Garbage odd block; otherwise
\* Write(proto) for Erased and Erase(proto) for RawVid or Garbage.
C33_MigrationActions ==
    MigrationPlanned =>
        /\ Len(work) = Cardinality({work[k][1] : k \in 1..Len(work)})
        /\ \A i \in 0..(2 * (NumBlocks(ebt) \div 2) - 1) :
              /\ ItemsOf(i) = {ClaimedAction(i)} \ {Ignore}
              /\ i % 2 = 0 => ClaimedAction(i) = erase_action(ebt[i], proto[1])

\* A migration has been planned over pairs whose even block has an EC header and
\* whose odd block is Erased in one and RawVid or Garbage in another, the even
\* header's erase count differing from the prototype's
C33_Witness ==
    /\ MigrationPlanned
    /\ \E i, j \in DOMAIN ebt :
          /\ i % 2 = 0 /\ j % 2 = 0 /\ (i + 1) \in DOMAIN ebt /\ (j + 1) \in DOMAIN ebt
          /\ HasEc(ebt[i]) /\ ebt[i][2].ec # proto[1].ec /\ ebt[i + 1] = Erased
          /\ HasEc(ebt[j]) /\ ebt[j + 1][1] \in {"RawVid", "Garbage"}
          /\ ItemsOf(i + 1) = {Write(ProtoWithEc(proto[1], ebt[i][2].ec))}
          /\ ItemsOf(j + 1) = {Erase(ProtoWithEc(proto[1], ebt[j][2].ec + 1))}

\* The EC header on page 0 of block b, if any
EcOnFlash(n, b) == EcDecode(read_page(n[b], PagesPerBlock, 0))

\* The step has erased block b: its pages are not the old ones with pages added
ErasedInStep(b) ==
    \/ Len(nand'[b].data) < Len(nand[b].data)
    \/ SubSeq(nand'[b].data, 1, Len(nand[b].data)) # nand[b].data

\* Block b, which has a valid EC header with erase count e: either the step does
\* not erase the block and leaves the header; or the erase or the program after it
\* has failed, no header is written, and the block is marked bad or, mark_bad
\* failing too, the installer returns the error; or the block holds nothing but an
\* EC header with erase count e + 1
CountsErase(b) ==
    EcOnFlash(nand, b) # None =>
        IF ~ErasedInStep(b) THEN EcOnFlash(nand', b) = EcOnFlash(nand, b)
        ELSE \/ nand'[b] = mark_bad(NewBlock)
             \/ nand'[b] = NewBlock /\ (fres' = "err" \/ vres' = "err")
             \/ /\ EcOnFlash(nand', b) # None
                /\ EcOnFlash(nand', b)[1].ec = EcOnFlash(nand, b)[1].ec + 1
                /\ Len(nand'[b].data) = 1

\* The number of erase operations the step has issued
ErasesIssued == Cardinality({k \in 1..Len(lastOps') : lastOps'[k][1] = "erase"})

\* C38: across format and write_volumes, whenever the installer erases a block whose
\* erase count e was known from a valid EC header, the EC header it then writes
\* carries erase count e + 1, one increment per erase; no block's on-flash erase
\* count ever decreases.
C38_EraseCountsUp ==
    [][nand' # nand =>
         \A b \in {c \in DOMAIN nand : nand'[c] # nand[c]} :
            /\ CountsErase(b)
            /\ (EcOnFlash(nand, b) # None /\ EcOnFlash(nand', b) # None) =>
                  EcOnFlash(nand', b)[1].ec >= EcOnFlash(nand, b)[1].ec
            /\ (fpc = "exec" /\ ErasedInStep(b)) => ErasesIssued = 1
            /\ (vpc = "program" /\ ErasedInStep(b) /\ ~nand'[b].marked_bad) =>
                  ErasesIssued = 1]_vars

\* format has erased blocks that had an EC header, one of them with the layout of
\* the prototype and data, another with a foreign layout: they hold a header with
\* one erase more
FormatErasedAndCounted ==
    /\ fpc = "exec"
    /\ \E b, c \in DOMAIN nand :
          /\ ebt0[b][1] = "EcData" /\ ebt0[c][1] = "EcErased"
          /\ \A x \in {b, c} :
                /\ \E j \in 1..Len(execLog) : execLog[j] = x
                /\ EcOnFlash(nand, x) # None
                /\ EcOnFlash(nand, x)[1].ec = ebt0[x][2].ec + 1

\* write_volumes has erased the block it selected with erase count e, after the
\* program of a LEB failed on it: the block holds nothing but a header of erase
\* count e + 1, and the program is about to be tried again
C38_Witness ==
    /\ vpc = "program" /\ tried_erase
    /\ lastOps = <<<<"program", FALSE>>, <<"erase", TRUE>>, <<"program", TRUE>>>>
    /\ ebt[block_id] = EcErased(inc_ec(sel_ec[1]))
    /\ nand[block_id] = [NewBlock EXCEPT !.data = <<EcEncode(inc_ec(sel_ec[1]))>>]
    /\ vlog # <<>>

\* The NAND operations of the step: the k-th is operation `name` with result `ok`
OpIs(k, name, ok) == k <= Len(lastOps') /\ lastOps'[k] = <<name, ok>>

\* The erase of the step failed: the block becomes Bad in the Ebt, and is marked bad
\* on the device unless mark_bad failed as well, which makes format return the error
EraseFailureMarksBad ==
    (\E k \in 1..Len(lastOps') : OpIs(k, "erase", FALSE)) =>
        /\ ebt'[StepBlock] = Bad
        /\ OpIs(Len(lastOps'), "mark_bad", TRUE) =>
              (nand'[StepBlock].marked_bad /\ fres' = fres)
        /\ OpIs(Len(lastOps'), "mark_bad", FALSE) => fres' = "err"

\* C32 as stated: executing Erase(ec), if the erase fails the block becomes Bad in
\* the EBT and is marked bad on the device; if the program that follows a successful
\* erase fails, the action is retried once (another erase and program) before it
\* gives up.
C32_EraseRetriesProgram ==
    [][ExecStep("Erase") =>
         /\ EraseFailureMarksBad
         /\ (OpIs(1, "erase", TRUE) /\ OpIs(2, "program", FALSE)) =>
               (lastOps'[3][1] = "erase" /\ Len(lastOps') >= 4
                   /\ lastOps'[4][1] = "program")]_vars

\* C32 amended: executing Erase(ec), if the erase fails the block becomes Bad in the
\* EBT and is marked bad on the device; if the program that follows a successful
\* erase fails, the block becomes Bad in the EBT and is marked bad at once, with no
\* other erase or program.  The one retry is that of a Write, as an Erase.
C32_EraseGivesUpAtOnce ==
    [][(ExecStep("Erase") \/ ExecStep("Write")) =>
         /\ EraseFailureMarksBad
         /\ \A k \in 1..Len(lastOps') :
               (OpIs(k, "erase", TRUE) /\ OpIs(k + 1, "program", FALSE)) =>
                  /\ Len(lastOps') = k + 2 /\ lastOps'[k + 2][1] = "mark_bad"
                  /\ ebt'[StepBlock] = Bad
                  /\ OpIs(k + 2, "mark_bad", TRUE) =>
                        (nand'[StepBlock].marked_bad /\ fres' = fres)
         /\ Cardinality({k \in 1..Len(lastOps') : lastOps'[k][1] = "erase"}) <= 1
         /\ Cardinality({k \in 1..Len(lastOps') : lastOps'[k][1] = "program"})
               <= IF ExecStep("Write") THEN 2 ELSE 1]_vars

\* An Erase has been executed whose erase succeeded and whose program failed: the
\* block is Bad in the Ebt and marked bad, and format goes on
C32_Witness ==
    /\ fpc = "exec" /\ fres = "none"
    /\ lastOps = <<<<"erase", TRUE>>, <<"program", FALSE>>, <<"mark_bad", TRUE>>>>
    /\ LET b == execLog[Len(execLog)] IN
       /\ ebt0[b] # Erased /\ ebt[b] = Bad /\ nand[b].marked_bad

\* An Erase has been executed whose erase failed
EraseFailedMarkedBad ==
    /\ fpc = "exec" /\ fres = "none"
    /\ lastOps = <<<<"erase", FALSE>>, <<"mark_bad", TRUE>>>>
    /\ LET b == execLog[Len(execLog)] IN ebt[b] = Bad /\ nand[b].marked_bad

\* A Write was promoted to Erase: the block, erased when scanned, holds the header
\* of the action with one more erase, and so does its Ebt entry
C31_Witness ==
    /\ fpc = "exec" /\ budget = MaxFaults - 1
    /\ \E b \in failed :
          /\ ebt0[b] = Erased
          /\ ebt[b][1] = "EcErased"
          /\ HoldsOnlyEc(nand[b], ebt[b][2])
          /\ \E e \in {proto[1].ec} \cup {ebt0[i][2].ec : i \in EcBlocks(ebt0)} :
                ebt[b][2] = with_ec(proto[1], e + 1)

(***************************************************************************)
(* The raw image writer (src/src/format/raw.rs) on the boot partition.     *)
(***************************************************************************)
Min(a, b) == IF a < b THEN a ELSE b

RECURSIVE check_pages(_, _, _, _, _, _)
\* check_raw_block: the loop, page by page.  d is the part of `data` still to
\* compare, upto is data_correct_upto.  The block is read PAGE_CHUNKS = 8 pages
\* at a time; read_ok tells whether block.read returns Ok.
check_pages(blk, ppb, page, d, upto, read_ok) ==
    IF upto = None /\ d = <<>> THEN Some(page)
    ELSE IF page >= ppb THEN upto
    ELSE IF page % 8 = 0 /\ ~read_ok THEN None
    ELSE LET page_content == read_page(blk, ppb, page)
             cmp_len == Min(BytesPerPage, Len(d))
             same == /\ page_content[1] = "raw"
                     /\ SubSeq(Tail(page_content), 1, cmp_len) = SubSeq(d, 1, cmp_len)
             upto2 == IF upto = None /\ ~same THEN Some(page) ELSE upto
             d2 == IF upto = None /\ same THEN SubSeq(d, cmp_len + 1, Len(d)) ELSE d
         IN IF upto2 # None /\ ~is_erased(page_content) THEN None
            ELSE check_pages(blk, ppb, page + 1, d2, upto2, read_ok)

\* A check_raw_block that never asks for an erase
check_raw_block_lenient(blk, ppb, d, read_ok) ==
    LET r == check_pages(blk, ppb, 0, d, None, read_ok)
    IN IF r = None THEN Some(0) ELSE r

\* check_raw_block
check_raw_block(blk, ppb, d, read_ok) == check_pages(blk, ppb, 0, d, None, read_ok)

\* update_raw_block: `data` resized with 0xFF to a multiple of the page size
Padded(d) ==
    LET len0 == Len(d) + BytesPerPage - 1
        data_len == len0 - (len0 % BytesPerPage)
    IN d \o [i \in 1..(data_len - Len(d)) |-> 255]

\* the pages of a page-aligned byte sequence, as NandBlock::program chunks it
Pages(d) ==
    [k \in 1..(Len(d) \div BytesPerPage) |->
        <<"raw">> \o SubSeq(d, (k - 1) * BytesPerPage + 1, k * BytesPerPage)]

\* update_raw_block: the set of possible outcomes [blk, ok, used, ops]; `left` is
\* the number of device failures that may still be injected, ops the erase and
\* program calls issued (a program as <<"program", start_page, content>>).
update_raw_block(blk, ppb, d, left) ==
    LET content == Pages(Padded(d))
        \* what follows check_raw_block's result r, u failures being consumed
        After(r, u) ==
            LET start_page == IF r = None THEN 0 ELSE r[1]
                blk1 == IF r = None THEN erase(blk) ELSE blk
                w == program(blk1, ppb, start_page, content)
                eops == IF r = None THEN <<<<"erase">>>> ELSE <<>>
                pops == <<<<"program", start_page, content>>>>
            IN {[blk |-> w.blk, ok |-> w.ok, used |-> u, ops |-> eops \o pops]}
               \cup (IF left >= u + 1 /\ r = None     \* block.erase()? fails
                     THEN {[blk |-> blk, ok |-> FALSE, used |-> u + 1, ops |-> <<>>]}
                     ELSE {})
               \cup (IF left >= u + 1 /\ w.ok         \* the device fails the program
                     THEN {[blk |-> blk1, ok |-> FALSE, used |-> u + 1,
                            ops |-> eops \o pops]}
                     ELSE {})
    IN After(check_raw_block(blk, ppb, d, TRUE), 0)
       \cup (IF left >= 1 /\ d # <<>>              \* the device fails the read
             THEN After(check_raw_block(blk, ppb, d, FALSE), 1)
             ELSE {})

\* A write_raw_image that gives the block up at the first Err of update_raw_block
after_failure_one_attempt(blk, left, att, skip) ==
    {[blk |-> mark_bad(erase(blk)), used |-> 0, erased |-> TRUE,
      next |-> IF skip THEN "find" ELSE "err"]}

\* write_raw_image: what follows an Err of update_raw_block in iteration `att` of
\* `for _ in 0..5`: block.erase()?, and after the last iteration block.mark_bad()?
\* and ensure!(skip_bad).  The set of possible outcomes [blk, used, erased, next].
after_failure(blk, left, att, skip) ==
    LET blk1 == erase(blk)
        last == att + 1 = ATTEMPTS
    IN (IF ~last
        THEN {[blk |-> blk1, used |-> 0, erased |-> TRUE, next |-> "update"]}
        ELSE {[blk |-> mark_bad(blk1), used |-> 0, erased |-> TRUE,
               next |-> IF skip THEN "find" ELSE "err"]})
       \cup (IF left >= 1         \* block.erase()? fails
             THEN {[blk |-> blk, used |-> 1, erased |-> FALSE, next |-> "err"]}
             ELSE {})
       \cup (IF left >= 1 /\ last \* block.mark_bad()? fails
             THEN {[blk |-> blk1, used |-> 1, erased |-> TRUE, next |-> "err"]}
             ELSE {})

\* The size of a block of the boot partition, in bytes
block_size == BootPagesPerBlock * BytesPerPage

RECURSIVE ImagesOf(_)
\* The images of n whole pages, each page all 0x01 or all 0xFF
ImagesOf(n) ==
    IF n = 0 THEN {<<>>}
    ELSE {[i \in 1..BytesPerPage |-> b] \o t : b \in {1, 255}, t \in ImagesOf(n - 1)}

\* The bootloader images: whole pages followed by a last page of any length
Images ==
    {w \o [i \in 1..k |-> 1] :
        w \in UNION {ImagesOf(n) : n \in 0..MaxImagePages}, k \in 0..(BytesPerPage - 1)}

\* The format pipeline is not running, the Ebt being e
FormatIdleWith(e) ==
    /\ ebt = e /\ fpc = "idle" /\ proto = None /\ migrating = FALSE
    /\ work = <<>> /\ ebt0 = <<>> /\ execLog = <<>> /\ fres = "none" /\ round = 0
    /\ prevScan = <<>> /\ lastScan = <<>> /\ failed = {} /\ lastOps = <<>>

FormatIdle == FormatIdleWith(<<>>)

\* write_raw_image is called on a boot partition whose good blocks are erased
RInit ==
    /\ nand \in [0..(BootBlocks - 1) -> {NewBlock, mark_bad(NewBlock)}]
    /\ budget = MaxFaults
    /\ cuts = 0
    /\ FormatIdle
    /\ VolIdle
    /\ OpIdle
    /\ image \in Images
    /\ skip_bad \in BOOLEAN
    /\ pos = 0 /\ data = <<>> /\ block_index = 0 /\ attempt = 0
    /\ rpc = "read" /\ rres = "none" /\ rrun = 1
    /\ rops = <<>> /\ placed = <<>> /\ doneBefore = {}

\* write_raw_image: image.read_to_vec(&mut data, block_size), and Ok(()) at EOF
RawRead ==
    /\ rpc = "read"
    /\ LET n == Min(block_size, Len(image) - pos)
           d == SubSeq(image, pos + 1, pos + n)
       IN /\ data' = d
          /\ pos' = pos + n
          /\ IF d = <<>>
             THEN rres' = "ok" /\ rpc' = "done"
             ELSE rpc' = "find" /\ UNCHANGED rres
    /\ UNCHANGED <<devvars, fvars, image, skip_bad, block_index, attempt, rrun, rops,
                   placed, doneBefore>>
    /\ UNCHANGED <<volvars, opvars>>

\* RawFind without ensure!(skip_bad): a block marked bad is always skipped
RawFindSkipping ==
    /\ rpc = "find"
    /\ IF block_index \notin DOMAIN nand
       THEN rres' = "err" /\ rpc' = "end" /\ UNCHANGED <<block_index, attempt>>
       ELSE /\ block_index' = block_index + 1
            /\ IF block(nand, block_index) # None
               THEN rpc' = "update" /\ attempt' = 0 /\ UNCHANGED rres
               ELSE UNCHANGED <<rpc, rres, attempt>>
    /\ UNCHANGED <<devvars, fvars, image, skip_bad, pos, data, rrun, rops, placed,
                   doneBefore>>
    /\ UNCHANGED <<volvars, opvars>>

\* A RawFind that does not advance block_index past a block marked bad
RawFindNoAdvance ==
    /\ rpc = "find"
    /\ IF block_index \notin DOMAIN nand
       THEN rres' = "err" /\ rpc' = "end" /\ UNCHANGED <<block_index, attempt>>
       ELSE IF block(nand, block_index) # None
            THEN /\ block_index' = block_index + 1
                 /\ rpc' = "update" /\ attempt' = 0 /\ UNCHANGED rres
            ELSE IF skip_bad
                 THEN UNCHANGED <<block_index, rpc, rres, attempt>>
                 ELSE /\ block_index' = block_index + 1
                      /\ rres' = "err" /\ rpc' = "end" /\ UNCHANGED attempt
    /\ UNCHANGED <<devvars, fvars, image, skip_bad, pos, data, rrun, rops, placed,
                   doneBefore>>
    /\ UNCHANGED <<volvars, opvars>>

\* write_raw_image: nand.block(block_index)? at the top of 'find_block_and_write,
\* and ensure!(skip_bad) when the block is marked bad
RawFind ==
    /\ rpc = "find"
    /\ IF block_index \notin DOMAIN nand
       THEN \* block(nand, block_index) is an error
            rres' = "err" /\ rpc' = "end" /\ UNCHANGED <<block_index, attempt>>
       ELSE /\ block_index' = block_index + 1
            /\ IF block(nand, block_index) # None
               THEN rpc' = "update" /\ attempt' = 0 /\ UNCHANGED rres
               ELSE IF skip_bad
                    THEN UNCHANGED <<rpc, rres, attempt>>
                    ELSE rres' = "err" /\ rpc' = "end" /\ UNCHANGED attempt
    /\ UNCHANGED <<devvars, fvars, image, skip_bad, pos, data, rrun, rops, placed,
                   doneBefore>>
    /\ UNCHANGED <<volvars, opvars>>

\* write_raw_image: one iteration of `for _ in 0..5` on the block found
RawUpdate ==
    /\ rpc = "update"
    /\ LET b == block_index - 1 IN
       \E o \in update_raw_block(nand[b], BootPagesPerBlock, data,
                                 IF cuts = 0 THEN budget ELSE 0) :
          LET ops1 == [j \in 1..Len(o.ops) |-> <<o.ops[j][1], b>> \o Tail(o.ops[j])]
          IN IF o.ok
             THEN /\ nand' = [nand EXCEPT ![b] = o.blk]
                  /\ budget' = budget - o.used
                  /\ rops' = rops \o ops1
                  /\ placed' = Append(placed, <<b, data>>)
                  /\ rpc' = "read"
                  /\ UNCHANGED <<attempt, rres>>
             ELSE \E f \in after_failure(o.blk,
                                         IF cuts = 0 THEN budget - o.used ELSE 0,
                                         attempt, skip_bad) :
                  /\ nand' = [nand EXCEPT ![b] = f.blk]
                  /\ budget' = budget - o.used - f.used
                  /\ rops' = rops \o ops1
                               \o (IF f.erased THEN <<<<"erase", b>>>> ELSE <<>>)
                  /\ attempt' = attempt + 1
                  /\ rpc' = IF f.next = "err" THEN "end" ELSE f.next
                  /\ rres' = IF f.next = "err" THEN "err" ELSE rres
                  /\ UNCHANGED placed
    /\ UNCHANGED <<cuts, fvars, image, skip_bad, pos, data, block_index, rrun,
                   doneBefore>>
    /\ UNCHANGED <<volvars, opvars>>

\* write_raw_image has returned Ok and is called again with the same image
RawAgain ==
    /\ rpc = "done"
    /\ rrun < MaxRuns
    /\ rrun' = rrun + 1
    /\ pos' = 0 /\ data' = <<>> /\ block_index' = 0 /\ attempt' = 0
    /\ rops' = <<>> /\ placed' = <<>>
    /\ rpc' = "read" /\ rres' = "none"
    /\ UNCHANGED <<devvars, fvars, image, skip_bad, doneBefore>>
    /\ UNCHANGED <<volvars, opvars>>

\* Power is lost during update_raw_block: before it touched the block, or after
\* its erase and the first k pages of its program.  Behaviours have device
\* failures or power cuts, not both.
RawCut ==
    /\ rpc = "update"
    /\ cuts < MaxCuts
    /\ budget = MaxFaults
    /\ LET b == block_index - 1
           r == check_raw_block(nand[b], BootPagesPerBlock, data, TRUE)
           start_page == IF r = None THEN 0 ELSE r[1]
           blk1 == IF r = None THEN erase(nand[b]) ELSE nand[b]
           content == Pages(Padded(data))
       IN \/ UNCHANGED nand
          \/ \E k \in 0..(Len(content) - 1) :
                nand' = [nand EXCEPT ![b] =
                            program(blk1, BootPagesPerBlock, start_page,
                                    SubSeq(content, 1, k)).blk]
    /\ cuts' = cuts + 1
    /\ doneBefore' = {placed[j][1] : j \in 1..Len(placed)}
    /\ rpc' = "cut" /\ rres' = "cut"
    /\ UNCHANGED <<budget, fvars, image, skip_bad, pos, data, block_index, attempt,
                   rrun, rops, placed>>
    /\ UNCHANGED <<volvars, opvars>>

\* The installer runs again after the power cut, with the same image
RawRestart ==
    /\ rpc = "cut"
    /\ rrun' = 1
    /\ pos' = 0 /\ data' = <<>> /\ block_index' = 0 /\ attempt' = 0
    /\ rops' = <<>> /\ placed' = <<>>
    /\ rpc' = "read" /\ rres' = "none"
    /\ UNCHANGED <<devvars, fvars, image, skip_bad, doneBefore>>
    /\ UNCHANGED <<volvars, opvars>>

RNext == RawRead \/ RawFind \/ RawUpdate \/ RawAgain \/ RawCut \/ RawRestart

\* write_raw_image, run again and again, with device failures and power cuts
SpecRaw == RInit /\ [][RNext]_vars

\* The same, write_raw_image going on as long as it has not returned and power is
\* on: it is sequential code whose reads and NAND operations return
SpecRawFair ==
    /\ RInit /\ [][RNext]_vars
    /\ WF_vars(RawRead) /\ WF_vars(RawFind)
    \* WF_vars(RawUpdate), with ENABLED <<RawUpdate>>_vars written out: an iteration
    \* is possible exactly when rpc = "update", and it changes attempt or rpc
    /\ ([]<>(rpc # "update") \/ []<><<RawUpdate>>_vars)

(***************************************************************************)
(* Claims about the raw image writer.                                      *)
(***************************************************************************)
\* The pages a chunk of the image occupies on flash
ChunkPages(d) == Pages(Padded(d))

\* The block holds the chunk from page 0 on
HoldsChunk(blk, d) ==
    \A k \in 1..Len(ChunkPages(d)) : read_page(blk, BootPagesPerBlock, k - 1) = ChunkPages(d)[k]

\* write_raw_image returned Ok: every block it used holds its chunk from page 0
UsedBlocksHoldChunks ==
    (rpc = "done" /\ rres = "ok") =>
        \A j \in 1..Len(placed) : HoldsChunk(nand[placed[j][1]], placed[j][2])

\* A program that resumed a used block at a page beyond 0 wrote the remainder of
\* the block's chunk, nothing else
ResumeWritesRemainder ==
    (rpc = "done" /\ rres = "ok") =>
        \A j \in 1..Len(placed) : \A i \in 1..Len(rops) :
            (rops[i][1] = "program" /\ rops[i][2] = placed[j][1] /\ rops[i][3] > 0)
                => rops[i][4] = SubSeq(ChunkPages(placed[j][2]), rops[i][3] + 1,
                                       Len(ChunkPages(placed[j][2])))

\* C5: when write_raw_image returns Ok, every block it used holds its chunk of the
\* image from page 0 (the last chunk padded with 0xFF to a page boundary), and a
\* block resumed after a partial match was programmed from the resume page on with
\* the remainder of its chunk only.
C5_RawImageOnFlash == UsedBlocksHoldChunks /\ ResumeWritesRemainder

\* A write_raw_image that follows one that returned Ok, with the same image and the
\* device not failing, issues no erase and no program
SecondRunIssuesNothing == (rrun >= 2 /\ budget = MaxFaults) => rops = <<>>

\* The same, for erases alone
SecondRunErasesNothing ==
    (rrun >= 2 /\ budget = MaxFaults) => \A i \in 1..Len(rops) : rops[i][1] # "erase"

\* A run resumed after a power cut does not erase a block that the interrupted run
\* had fully programmed (the device not failing)
ResumeKeepsDoneBlocks ==
    (cuts > 0 /\ rpc # "cut" /\ rrun = 1 /\ budget = MaxFaults) =>
        \A i \in 1..Len(rops) : rops[i][1] = "erase" => rops[i][2] \notin doneBefore

\* C6: running write_raw_image twice in a row with the same image erases and
\* programs only in the first run, and a resumed run does not erase again a block
\* that is already fully programmed with its chunk.
C6_SecondRunWritesNothing == SecondRunIssuesNothing /\ ResumeKeepsDoneBlocks

(***************************************************************************)
(* The ubinizer (src/src/ubi/ubinize.rs).                                  *)
(*                                                                         *)
(* The image of a volume is [len, byte]: len bytes of one value are left   *)
(* in the stream.  The payload of a LEB is kept with its pages:            *)
(* <<"fill", b, n>> is a page of n bytes b padded with 0xFF, and           *)
(* <<"vtbl", records, k>> is page k of the encoded volume table.           *)
(***************************************************************************)
\* Pages of the payload of a data LEB: n bytes of value b, the last page padded
\* with 0xFF by write_volumes (data.resize(size, 0xFF))
FillPages(b, n, page_size) ==
    [k \in 1..((n + page_size - 1) \div page_size) |->
        IF b = 255 THEN ErasedPage
        ELSE <<"fill", b, Min(page_size, n - (k - 1) * page_size)>>]

\* Pages of the payload of a layout volume LEB: the records, encoded in
\* UBI_VTBL_RECORD_SIZE bytes each
VtblPages(records, page_size) ==
    [k \in 1..((UBI_VTBL_RECORD_SIZE * Len(records) + page_size - 1) \div page_size) |->
        <<"vtbl", records, k>>]

\* BasicVolume
BasicVolume(img, vtype, id, size, alignment) ==
    [image |-> img, vtype |-> vtype, id |-> id, size |-> size, alignment |-> alignment]

\* BasicVolume::estimate_blocks
estimate_blocks(v, eb_size) ==
    LET data_pad == eb_size % v.alignment
        leb_size == eb_size - data_pad
    IN ((IF v.size = None THEN 0 ELSE v.size[1]) + (leb_size - 1)) \div leb_size

\* VolTableRecord
VolTableRecord(reserved_pebs, alignment, data_pad, vol_type) ==
    [reserved_pebs |-> reserved_pebs, alignment |-> alignment, data_pad |-> data_pad,
     vol_type |-> vol_type]

\* BasicVolume::into_data: the BasicVolumeData, or [panic |-> TRUE] when the
\* assertion "size MUST be specified for Static volumes" fails.  image.take(size)
\* limits the image.
basic_into_data(v, eb_size, vol_id) ==
    IF v.vtype = "Static" /\ v.size = None THEN [panic |-> TRUE]
    ELSE
    LET used_ebs == IF v.vtype = "Dynamic" THEN 0 ELSE estimate_blocks(v, eb_size)
        data_pad == eb_size % v.alignment
        leb_size == eb_size - data_pad
        taken == IF v.image = None \/ v.size = None THEN v.image
                 ELSE Some([v.image[1] EXCEPT !.len = Min(@, v.size[1])])
    IN [kind |-> "basic", image |-> taken, leb_size |-> leb_size,
        vid |-> Vid(v.vtype, 0, vol_id, 0, 0, used_ebs, 0),
        record |-> Some(VolTableRecord(used_ebs, v.alignment, data_pad, v.vtype)),
        data |-> <<>>]

\* LayoutVolume::new: the record slots, slot id + 1 holding the record of volume id
LayoutVolume_new(eb_size) ==
    [i \in 1..Min(eb_size \div UBI_VTBL_RECORD_SIZE, UBI_MAX_VOLUMES) |-> None]

\* LayoutVolume::allocate_id
allocate_id(records) ==
    IF \E i \in DOMAIN records : records[i] = None
    THEN Some((CHOOSE i \in DOMAIN records :
                  /\ records[i] = None
                  /\ \A j \in DOMAIN records : records[j] = None => i <= j) - 1)
    ELSE None

\* An is_id_available that looks at the range of the id only
is_id_available_in_range(records, id) == (id + 1) \in DOMAIN records

\* An is_id_available that grants no request
is_id_available_never(records, id) == FALSE

\* LayoutVolume::is_id_available
is_id_available(records, id) == (id + 1) \in DOMAIN records /\ records[id + 1] = None

\* A store_record that drops the record
store_record_dropped(records, id, record) == records

\* LayoutVolume::store_record: "PANIC" when records[id] is out of bounds or the
\* assertion fails, the slot holding a record already
store_record(records, id, record) ==
    IF (id + 1) \in DOMAIN records /\ records[id + 1] = None
    THEN [records EXCEPT ![id + 1] = Some(record)]
    ELSE "PANIC"

\* LayoutVolume::into_data: the LayoutVolumeData
layout_into_data(records) ==
    [kind |-> "layout", image |-> None, leb_size |-> 0,
     vid |-> Vid(UBI_LAYOUT_VOLUME_TYPE, UBI_LAYOUT_VOLUME_COMPAT, UBI_LAYOUT_VOLUME_ID,
                 0, 0, 0, 0),
     record |-> None, data |-> records]

\* No further block: the result of a next_block that returns Ok(None)
NoBlock(d) == [vid |-> None, pages |-> <<>>, self |-> d]

\* A layout volume that yields a single copy of the volume table
layout_next_block_once(d, page_size) ==
    IF d.vid.lnum >= 1 THEN NoBlock(d)
    ELSE [vid |-> Some(d.vid), pages |-> VtblPages(d.data, page_size),
          self |-> [d EXCEPT !.vid.lnum = @ + 1]]

\* LayoutVolumeData::next_block: [vid, pages appended to `data`, the updated self]
layout_next_block(d, page_size) ==
    IF d.vid.lnum >= UBI_LAYOUT_VOLUME_EBS THEN NoBlock(d)
    ELSE [vid |-> Some(d.vid), pages |-> VtblPages(d.data, page_size),
          self |-> [d EXCEPT !.vid.lnum = @ + 1]]

\* BasicVolumeData::next_block
basic_next_block(d, page_size) ==
    IF d.image = None THEN NoBlock(d)
    ELSE LET n == Min(d.leb_size, d.image[1].len) IN    \* read_to_vec
         IF n = 0 THEN NoBlock(d)
         ELSE [vid |-> Some(IF d.vid.vol_type = "Static"
                            THEN [d.vid EXCEPT !.data_size = n] ELSE d.vid),
               pages |-> FillPages(d.image[1].byte, n, page_size),
               self |-> [d EXCEPT !.image = Some([@[1] EXCEPT !.len = @ - n]),
                                  !.vid.lnum = @ + 1]]

\* VolumeData::next_block
volume_next_block(d, page_size) ==
    IF d.kind = "layout" THEN layout_next_block(d, page_size)
    ELSE basic_next_block(d, page_size)

\* BasicVolumeData::into_vtbl_record
into_vtbl_record(d) ==
    IF d.record[1].reserved_pebs = 0
    THEN [d.record[1] EXCEPT !.reserved_pebs = d.vid.lnum]
    ELSE d.record[1]

\* Ubinizer::new
Ubinizer_new(vols, eb_size) ==
    [volumes |-> vols, eb_size |-> eb_size, layout |-> Some(LayoutVolume_new(eb_size)),
     sqnum |-> 0, current_id |-> 0, current_data |-> None]

\* Ubinizer::next_volume: [ok, u]; ok is FALSE when expect() or the assertion of
\* into_data panics
next_volume(u) ==
    IF u.volumes = <<>> /\ u.layout = None
    THEN [ok |-> TRUE, u |-> [u EXCEPT !.current_data = None]]
    ELSE LET basic == u.volumes # <<>>
             layout == IF basic THEN u.layout ELSE None     \* self.layout.take()
             wanted == IF basic THEN Head(u.volumes).id ELSE Some(UBI_LAYOUT_VOLUME_ID)
             vol_id == IF layout = None THEN wanted
                       ELSE IF wanted # None /\ is_id_available(layout[1], wanted[1])
                            THEN wanted
                       ELSE allocate_id(layout[1])
         IN IF vol_id = None THEN [ok |-> FALSE, u |-> u]
            ELSE IF basic /\ "panic" \in DOMAIN basic_into_data(Head(u.volumes),
                                                                u.eb_size, vol_id[1])
            THEN [ok |-> FALSE, u |-> u]
            ELSE [ok |-> TRUE,
                  u |-> [u EXCEPT
                           !.volumes = IF basic THEN Tail(@) ELSE @,
                           !.layout = layout,
                           !.current_id = vol_id[1],
                           !.current_data =
                               Some(IF basic
                                    THEN basic_into_data(Head(u.volumes), u.eb_size,
                                                         vol_id[1])
                                    ELSE layout_into_data(u.layout[1]))]]

\* Vid::sqnum left out: the Vid keeps the sequence number its volume gave it
keep_sqnum(vid, sqn) == vid

\* Vid::sqnum
with_sqnum(vid, sqn) == [vid EXCEPT !.sqnum = sqn]

RECURSIVE Ubinizer_next_block(_, _)
\* Ubinizer::next_block: [res, vid, pages, u] with res "some", "none" or "panic"
Ubinizer_next_block(u0, page_size) ==
    LET nv == IF u0.current_data = None THEN next_volume(u0)
              ELSE [ok |-> TRUE, u |-> u0]
        u == nv.u
    IN IF ~nv.ok THEN [res |-> "panic", vid |-> None, pages |-> <<>>, u |-> u]
       ELSE IF u.current_data = None
            THEN [res |-> "none", vid |-> None, pages |-> <<>>, u |-> u]
       ELSE LET r == volume_next_block(u.current_data[1], page_size) IN
            IF r.vid # None
            THEN [res |-> "some", vid |-> Some(with_sqnum(r.vid[1], u.sqnum + 1)),
                  pages |-> r.pages,
                  u |-> [u EXCEPT !.sqnum = @ + 1, !.current_data = Some(r.self)]]
            ELSE IF /\ u.layout # None
                    /\ ~ /\ (u.current_id + 1) \in DOMAIN u.layout[1]
                         /\ u.layout[1][u.current_id + 1] = None
            THEN \* store_record panics
                 [res |-> "panic", vid |-> None, pages |-> <<>>, u |-> u]
            ELSE Ubinizer_next_block(
                    [u EXCEPT
                       !.current_data = None,
                       !.layout =
                          IF @ = None THEN @
                          ELSE Some(store_record(@[1], u.current_id,
                                                 into_vtbl_record(u.current_data[1])))],
                    page_size)

(***************************************************************************)
(* write_volumes (src/src/ubi/format.rs).                                  *)
(***************************************************************************)
\* write_volumes: eb_size
eb_size == UbiBytesPerPage * (PagesPerBlock - 2)

RECURSIVE Ascending(_)
\* The elements of a set of numbers in ascending order
Ascending(S) ==
    IF S = {} THEN <<>>
    ELSE LET m == CHOOSE x \in S : \A y \in S : x <= y
         IN <<m>> \o Ascending(S \ {m})

\* write_volumes: blocks_by_ec, filled from the EcErased entries in block order
build_blocks_by_ec(e) ==
    LET erased == {i \in DOMAIN e : e[i][1] = "EcErased"}
    IN [k \in {e[i][2].ec : i \in erased} |->
           Ascending({i \in erased : e[i][2].ec = k})]

RECURSIVE SumLen(_, _)
\* blocks_by_ec.values().map(|x| x.len()).sum()
SumLen(m, keys) ==
    IF keys = {} THEN 0
    ELSE LET k == CHOOSE x \in keys : TRUE IN Len(m[k]) + SumLen(m, keys \ {k})

RECURSIVE find_bucket_strict(_, _, _)
\* A find_map that wants a bucket larger than the threshold
find_bucket_strict(m, keys, threshold) ==
    IF keys = {} THEN None
    ELSE LET k == CHOOSE x \in keys : \A y \in keys : x <= y IN
         IF Len(m[k]) > threshold THEN Some(k)
         ELSE find_bucket_strict(m, keys \ {k}, threshold - Len(m[k]))

RECURSIVE find_bucket_no_subtract(_, _, _)
\* A find_map that leaves the threshold as it is
find_bucket_no_subtract(m, keys, threshold) ==
    IF keys = {} THEN None
    ELSE LET k == CHOOSE x \in keys : \A y \in keys : x <= y IN
         IF Len(m[k]) >= threshold THEN Some(k)
         ELSE find_bucket_no_subtract(m, keys \ {k}, threshold)

RECURSIVE find_bucket(_, _, _)
\* block_ordering: the find_map over the map's entries in ascending key order
find_bucket(m, keys, threshold) ==
    IF keys = {} THEN None
    ELSE LET k == CHOOSE x \in keys : \A y \in keys : x <= y IN
         IF Len(m[k]) >= threshold THEN Some(k)
         ELSE find_bucket(m, keys \ {k}, threshold - Len(m[k]))

\* block_ordering: the key of the percentile bucket
percentile_ec(m) ==
    find_bucket(m, DOMAIN m, (SumLen(m, DOMAIN m) * PERCENTILE) \div 100)

\* A block_ordering that leaves the bucket it yields in the map
ordering_next_keep_bucket(m, cur) ==
    IF cur # <<>> THEN [block |-> Some(Head(cur)), m |-> m, bucket |-> Tail(cur)]
    ELSE LET k == percentile_ec(m) IN
         IF k = None THEN [block |-> None, m |-> m, bucket |-> <<>>]
         ELSE [block |-> Some(Head(m[k[1]])), m |-> m, bucket |-> Tail(m[k[1]])]

\* A block_ordering that yields only the first block of each bucket
ordering_next_first_only(m, cur) ==
    LET k == percentile_ec(m) IN
    IF k = None THEN [block |-> None, m |-> m, bucket |-> <<>>]
    ELSE [block |-> Some(Head(m[k[1]])),
          m |-> [x \in (DOMAIN m) \ {k[1]} |-> m[x]],
          bucket |-> <<>>]

\* block_ordering.next(): [block, m, bucket], the flattened iterator taking the
\* next block of the current bucket, or removing the percentile bucket from the map
ordering_next(m, cur) ==
    IF cur # <<>> THEN [block |-> Some(Head(cur)), m |-> m, bucket |-> Tail(cur)]
    ELSE LET k == percentile_ec(m) IN
         IF k = None THEN [block |-> None, m |-> m, bucket |-> <<>>]
         ELSE [block |-> Some(Head(m[k[1]])),
               m |-> [x \in (DOMAIN m) \ {k[1]} |-> m[x]],
               bucket |-> Tail(m[k[1]])]

RECURSIVE strip_erased(_)
\* write_volumes: erased pages are stripped off the end of the buffer
strip_erased(pages) ==
    IF pages = <<>> THEN pages
    ELSE IF is_erased(pages[Len(pages)])
         THEN strip_erased(SubSeq(pages, 1, Len(pages) - 1))
    ELSE pages

\* write_volumes: the buffer programmed for a LEB.  Its first page, zeroes while
\* the buffer is stripped, receives the encoded VID header.
leb_buffer(vid, pages) == <<VidEncode(vid)>> \o strip_erased(pages)

\* The volumes the installer may be given
VolumeTemplates ==
    << BasicVolume(None, "Dynamic", Some(0), Some(eb_size), 1),
       BasicVolume(Some([len |-> eb_size + 1, byte |-> 17]), "Static", None,
                   Some(eb_size + 1), 1),
       BasicVolume(Some([len |-> 1, byte |-> 17]), "Static", Some(0),
                   Some(eb_size + 1), 1),
       BasicVolume(Some([len |-> eb_size, byte |-> 255]), "Dynamic", None, None, 1),
       BasicVolume(None, "Static", None, None, 1) >>

\* Sequences of volumes: the templates of a set of indices, in order
VolumeLists ==
    {[j \in 1..Len(Ascending(S)) |-> VolumeTemplates[Ascending(S)[j]]] :
        S \in SUBSET (1..Len(VolumeTemplates))}

\* The EC header of a formatted block with erase count e
FormattedEc(e) == Ec(e, UbiBytesPerPage, 2 * UbiBytesPerPage, 7)

\* Blocks of a formatted partition with nothing unusual
PlainBlocks ==
    {[NewBlock EXCEPT !.data = <<EcEncode(FormattedEc(e))>>] : e \in {1, 2}}

\* Blocks of a formatted partition: also a block marked bad, and a block with data
\* beyond the pages the scanner reads once it has seen an EC header
FormattedBlocks ==
    PlainBlocks \cup
    { mark_bad(NewBlock),
      [NewBlock EXCEPT !.data = <<EcEncode(FormattedEc(1))>>
                                   \o Filler(SCAN_PAGE_CHUNKS - 1) \o <<DataPage(1)>>] }

\* write_volumes is called with the Ebt of a formatted partition
VInit ==
    /\ nand \in [0..(MaxBlocks - 1) -> FormattedBlocks]
    /\ Cardinality({i \in DOMAIN nand : nand[i] \notin PlainBlocks}) <= 1
    /\ budget = MaxFaults
    /\ cuts = 0
    /\ FormatIdleWith(scan_blocks(nand, PagesPerBlock))
    /\ RawIdle
    /\ OpIdle
    /\ volumes \in VolumeLists
    /\ ubinizer = <<>> /\ blocks_by_ec = <<>> /\ bucket = <<>>
    /\ vdata = <<>> /\ vvid = None /\ block_id = 0 /\ sel_ec = None
    /\ tried_erase = FALSE /\ vpc = "start" /\ vres = "none" /\ vlog = <<>>
    /\ badLog = <<>>

\* write_volumes, up to the loop over the logical blocks
VolStart ==
    /\ vpc = "start"
    /\ blocks_by_ec' = build_blocks_by_ec(ebt)
    /\ bucket' = <<>>
    /\ ubinizer' = Ubinizer_new(volumes, eb_size)
    /\ vpc' = "next"
    /\ UNCHANGED <<devvars, fvars, rawvars, opvars, volumes, vdata, vvid, block_id, sel_ec,
                   tried_erase, vres, vlog, badLog>>

\* write_volumes: ubinizer.next_block(&mut data)? and the preparation of the buffer;
\* Ok(()) when the ubinizer has no further block
VolNext ==
    /\ vpc = "next"
    /\ LET r == Ubinizer_next_block(ubinizer, UbiBytesPerPage) IN
       /\ ubinizer' = r.u
       /\ IF r.res = "some"
          THEN /\ vvid' = r.vid
               /\ vdata' = leb_buffer(r.vid[1], r.pages)
               /\ vpc' = "select"
               /\ UNCHANGED vres
          ELSE /\ vres' = IF r.res = "none" THEN "ok" ELSE "panic"
               /\ vpc' = IF r.res = "none" THEN "done" ELSE "end"
               /\ UNCHANGED <<vvid, vdata>>
    /\ UNCHANGED <<devvars, fvars, rawvars, opvars, volumes, blocks_by_ec, bucket, block_id,
                   sel_ec, tried_erase, vlog, badLog>>

\* write_volumes: one iteration of the loop that selects the physical block
VolSelect ==
    /\ vpc = "select"
    /\ LET n == ordering_next(blocks_by_ec, bucket) IN
       /\ blocks_by_ec' = n.m
       /\ bucket' = n.bucket
       /\ IF n.block = None
          THEN \* "Flash is full"
               /\ vres' = "err" /\ vpc' = "end"
               /\ UNCHANGED <<ebt, block_id, sel_ec, tried_erase>>
          ELSE IF ebt[n.block[1]][1] # "EcErased"
          THEN \* unreachable!()
               /\ vres' = "panic" /\ vpc' = "end"
               /\ UNCHANGED <<ebt, block_id, sel_ec, tried_erase>>
          ELSE IF block(nand, n.block[1]) = None
          THEN \* the block went bad since the scan
               /\ ebt' = [ebt EXCEPT ![n.block[1]] = Bad]
               /\ UNCHANGED <<block_id, sel_ec, tried_erase, vres, vpc>>
          ELSE /\ block_id' = n.block[1]
               /\ sel_ec' = Some(ebt[n.block[1]][2])
               /\ tried_erase' = FALSE
               /\ vpc' = "program"
               /\ UNCHANGED <<ebt, vres>>
    /\ UNCHANGED <<devvars, fpc, proto, migrating, work, ebt0, execLog, fres, round,
                   prevScan, lastScan, failed, lastOps, rawvars, opvars, volumes,
                   ubinizer, vdata, vvid,
                   vlog, badLog>>

\* A write_volumes that gives a block up at its first program failure
after_program_failure_no_retry(blk, content, ec, tried, left) ==
    {[blk |-> mark_bad(blk), content |-> Bad, used |-> 0, next |-> "select",
      ops |-> <<<<"mark_bad", TRUE>>>>]}

\* A write_volumes that erases the block with the erase count it had
after_program_failure_same_ec(blk, content, ec, tried, left) ==
    IF tried
    THEN {[blk |-> mark_bad(blk), content |-> Bad, used |-> 0, next |-> "select",
           ops |-> <<<<"mark_bad", TRUE>>>>]}
         \cup (IF left >= 1
               THEN {[blk |-> blk, content |-> content, used |-> 1, next |-> "err",
                      ops |-> <<<<"mark_bad", FALSE>>>>]}
               ELSE {})
    ELSE {[blk |-> o.blk, content |-> o.content, used |-> o.used,
           next |-> IF ~o.ok THEN "err"
                    ELSE IF o.blk.marked_bad THEN "select" ELSE "program",
           ops |-> o.ops] :
             o \in execute(Erase(ec), blk, content, left)}

\* write_volumes: what follows a failed block.program(1, &data) on block blk: the
\* set of possible outcomes [blk, content, used, next, ops], ops being the NAND
\* operations issued, each with its result
after_program_failure(blk, content, ec, tried, left) ==
    IF tried
    THEN \* block.mark_bad()?; *ebt_entry = Bad
         {[blk |-> mark_bad(blk), content |-> Bad, used |-> 0, next |-> "select",
           ops |-> <<<<"mark_bad", TRUE>>>>]}
         \cup (IF left >= 1
               THEN {[blk |-> blk, content |-> content, used |-> 1, next |-> "err",
                      ops |-> <<<<"mark_bad", FALSE>>>>]}
               ELSE {})
    ELSE \* FormatAction::Erase(ec.inc_ec()).execute(block, ebt_entry)?, nand.block()
         {[blk |-> o.blk, content |-> o.content, used |-> o.used,
           next |-> IF ~o.ok THEN "err"
                    ELSE IF o.blk.marked_bad THEN "select" ELSE "program",
           ops |-> o.ops] :
             o \in execute(Erase(inc_ec(ec)), blk, content, left)}

\* write_volumes: one iteration of the loop that programs the selected block
VolProgram ==
    /\ vpc = "program"
    /\ LET b == block_id
           r == program(nand[b], PagesPerBlock, 1, vdata)
           tries == {[ok |-> r.ok, blk |-> r.blk, used |-> 0]}
                    \cup (IF budget >= 1 /\ r.ok    \* the device fails the program
                          THEN {[ok |-> FALSE, blk |-> nand[b], used |-> 1]}
                          ELSE {})
       IN \E t \in tries :
          IF t.ok
          THEN /\ nand' = [nand EXCEPT ![b] = t.blk]
               /\ ebt' = [ebt EXCEPT ![b] = EcData(sel_ec[1], vvid)]
               /\ vlog' = Append(vlog, <<b, vvid[1]>>)
               /\ vpc' = "next"
               /\ lastOps' = <<<<"program", TRUE>>>>
               /\ UNCHANGED <<budget, tried_erase, vres, badLog>>
          ELSE \E f \in after_program_failure(t.blk, ebt[b], sel_ec[1], tried_erase,
                                              budget - t.used) :
               /\ nand' = [nand EXCEPT ![b] = f.blk]
               /\ ebt' = [ebt EXCEPT ![b] = f.content]
               /\ budget' = budget - t.used - f.used
               /\ tried_erase' = (tried_erase \/ f.next = "program")
               /\ vpc' = IF f.next = "err" THEN "end" ELSE f.next
               /\ vres' = IF f.next = "err" THEN "err" ELSE vres
               /\ badLog' = IF f.blk.marked_bad THEN Append(badLog, <<b, vvid[1]>>)
                            ELSE badLog
               /\ lastOps' = <<<<"program", FALSE>>>> \o f.ops
               /\ UNCHANGED vlog
    /\ UNCHANGED <<cuts, fpc, proto, migrating, work, ebt0, execLog, fres, round,
                   prevScan, lastScan, failed, rawvars, opvars, volumes, ubinizer,
                   blocks_by_ec, bucket, vdata, vvid, block_id, sel_ec>>

VNext == VolStart \/ VolNext \/ VolSelect \/ VolProgram

\* write_volumes on a formatted partition, on a device that may fail
SpecVol == VInit /\ [][VNext]_vars

\* The ids a volume may ask for: none, each slot of the volume table, and one
\* beyond the table
RequestedIds ==
    {None} \cup {Some(i) : i \in 0..Len(LayoutVolume_new(eb_size))}

\* The longest list of volumes with ids of every kind: one more than the volume
\* table has slots
MaxVolumes == 4

\* Sequences of up to MaxVolumes Dynamic volumes asking for any ids in any order;
\* at most two of them have an image, of one byte
IdVolumeLists ==
    UNION {{[j \in 1..n |->
                BasicVolume(IF j \in S THEN Some([len |-> 1, byte |-> 17]) ELSE None,
                            "Dynamic", ids[j], None, 1)] :
               ids \in [1..n -> RequestedIds],
               S \in {T \in SUBSET (1..n) : Cardinality(T) <= 2}} :
           n \in 0..MaxVolumes}

\* write_volumes is called with such a list on a formatted partition without bad
\* blocks
VIdInit ==
    /\ nand = [i \in 0..(MaxBlocks - 1) |->
                  [NewBlock EXCEPT !.data = <<EcEncode(FormattedEc(1))>>]]
    /\ budget = MaxFaults
    /\ cuts = 0
    /\ FormatIdleWith(scan_blocks(nand, PagesPerBlock))
    /\ RawIdle
    /\ OpIdle
    /\ volumes \in IdVolumeLists
    /\ ubinizer = <<>> /\ blocks_by_ec = <<>> /\ bucket = <<>>
    /\ vdata = <<>> /\ vvid = None /\ block_id = 0 /\ sel_ec = None
    /\ tried_erase = FALSE /\ vpc = "start" /\ vres = "none" /\ vlog = <<>>
    /\ badLog = <<>>

\* write_volumes with volumes that ask for ids of every kind, on a device that
\* may fail
SpecVolIds == VIdInit /\ [][VNext]_vars

\* Either of the two: the format pipeline on a partition in any state, or
\* write_volumes on a formatted partition
FVInit == FInit \/ VInit

FVNext ==
    \/ Scan \/ FormatPlan \/ FormatStep \/ FormatDone
    \/ VolStart \/ VolNext \/ VolSelect \/ VolProgram

\* The writers of EC headers, format and write_volumes, on a device that may fail
SpecFormatVol == FVInit /\ [][FVNext]_vars

(***************************************************************************)
(* Claims about the volume writer.                                         *)
(***************************************************************************)
\* The good blocks whose page 1 holds a VID header, with that header
OnFlash ==
    {<<b, VidDecode(read_page(nand[b], PagesPerBlock, 1))[1]>> :
        b \in {c \in DOMAIN nand :
                 ~nand[c].marked_bad /\ VidDecode(read_page(nand[c], PagesPerBlock, 1)) # None}}

\* C7: the VID headers write_volumes programs carry sequence numbers that start at
\* 1 and strictly increase in write order, the layout volume included and also
\* when a LEB is placed on another block after a program failure; no two blocks on
\* flash carry the same sequence number.
C7_SqnumIncreases ==
    /\ vlog # <<>> => vlog[1][2].sqnum = 1
    /\ \A i, j \in 1..Len(vlog) : i < j => vlog[i][2].sqnum < vlog[j][2].sqnum
    /\ \A x, y \in OnFlash : x[1] # y[1] => x[2].sqnum # y[2].sqnum

\* A LEB has been placed on another block after a failure, and LEBs of a volume
\* and of the layout volume are on flash
C7_Witness ==
    /\ vres = "ok"
    /\ \E k \in 1..Len(badLog) : \E i \in 1..Len(vlog) :
          vlog[i][2].sqnum = badLog[k][2].sqnum /\ vlog[i][1] # badLog[k][1]
    /\ \E i, j \in 1..Len(vlog) :
          vlog[i][2].vol_id # UBI_LAYOUT_VOLUME_ID /\ vlog[j][2].vol_id = UBI_LAYOUT_VOLUME_ID

\* The LEBs of volume id that are on flash
LebsOf(id) == {x \in OnFlash : x[2].vol_id = id}

\* C8: for each volume written, the lnum values of its VID headers on flash are
\* exactly 0..used_ebs for a Static volume and 0..blocks_written for a Dynamic
\* volume, each occurring once.
C8_LnumsComplete ==
    vres = "ok" =>
        \A x \in OnFlash :
            LET lebs == LebsOf(x[2].vol_id)
                count == IF x[2].vol_type = "Static" THEN x[2].used_ebs
                         ELSE Cardinality(lebs)
            IN /\ {y[2].lnum : y \in lebs} = 0..(count - 1)
               /\ \A y, z \in lebs : y[2].lnum = z[2].lnum => y = z

\* No Static volume has an image shorter than its declared size
ImagesComplete ==
    \A k \in 1..Len(volumes) :
        (volumes[k].vtype = "Static" /\ volumes[k].image # None)
            => volumes[k].image[1].len >= volumes[k].size[1]

\* The same when every Static volume's image supplies the declared size
LnumsCompleteForWholeImages == ImagesComplete => C8_LnumsComplete

\* The same for Dynamic volumes, the layout volume included
DynamicLnumsComplete ==
    vres = "ok" =>
        \A x \in OnFlash :
            x[2].vol_type = "Dynamic" =>
                LET lebs == LebsOf(x[2].vol_id)
                IN /\ {y[2].lnum : y \in lebs} = 0..(Cardinality(lebs) - 1)
                   /\ \A y, z \in lebs : y[2].lnum = z[2].lnum => y = z

\* C9: after write_volumes returns Ok, the layout volume is on exactly 2 distinct
\* physical blocks, with lnum 0 and 1, and the two payloads are identical.
C9_LayoutVolumeTwice ==
    vres = "ok" =>
        LET lebs == LebsOf(UBI_LAYOUT_VOLUME_ID) IN
        /\ Cardinality({x[1] : x \in lebs}) = 2
        /\ {x[2].lnum : x \in lebs} = {0, 1}
        /\ \A x, y \in lebs : \A p \in 2..(PagesPerBlock - 1) :
              read_page(nand[x[1]], PagesPerBlock, p) = read_page(nand[y[1]], PagesPerBlock, p)

\* The blocks that received a LEB
LebBlocks == {vlog[k][1] : k \in 1..Len(vlog)}

\* write_volumes returned Ok: a block marked bad on the device is Bad in the Ebt
EbtBadAgrees ==
    vres = "ok" => \A b \in DOMAIN nand : nand[b].marked_bad => ebt[b] = Bad

\* write_volumes returned Ok: the entry of a block that received a LEB is EcData
\* with the VID header that is on page 1 of the block
EbtVidAgrees ==
    vres = "ok" =>
        \A b \in LebBlocks :
            ebt[b][1] = "EcData" /\ ebt[b][3] = VidDecode(read_page(nand[b], PagesPerBlock, 1))

\* write_volumes returned Ok: the entry of a block that received a LEB carries the
\* EC header that is on page 0 of the block
EbtEcAgrees ==
    vres = "ok" =>
        \A b \in LebBlocks :
            ebt[b][1] = "EcData" /\ Some(ebt[b][2]) = EcDecode(read_page(nand[b], PagesPerBlock, 0))

\* A block programmed at the first attempt gets the EC header that is on its page 0
EbtEcAgreesWithoutRetry ==
    [][(vpc = "program" /\ ~tried_erase /\ vlog' # vlog) =>
          Some(ebt'[block_id][2]) = EcDecode(read_page(nand'[block_id], PagesPerBlock, 0))]_vars

\* C14: after write_volumes returns Ok, every Ebt entry agrees with the flash: a
\* block that received a LEB is EcData(ec, vid) with ec the EC header on page 0 and
\* vid the VID header on page 1, also when the block was erased and programmed
\* again after a first program failure; a block marked bad is Bad.
C14_EbtAgreesWithFlash == EbtBadAgrees /\ EbtVidAgrees /\ EbtEcAgrees

\* The volume table on flash: the records on the first payload page of a block
\* that holds a layout volume LEB
VtblOnFlash ==
    LET x == CHOOSE y \in LebsOf(UBI_LAYOUT_VOLUME_ID) : TRUE
    IN read_page(nand[x[1]], PagesPerBlock, 2)[2]

RECURSIVE IdsFrom(_, _, _)
\* The volume ids the volumes vols get, `used` being taken and n the table's size:
\* the id asked for when it is free, else the lowest free one
IdsFrom(vols, used, n) ==
    IF vols = <<>> THEN <<>>
    ELSE LET wanted == Head(vols).id
             id == IF wanted # None /\ wanted[1] < n /\ wanted[1] \notin used
                   THEN wanted[1]
                   ELSE CHOOSE i \in (0..(n - 1)) \ used :
                            \A j \in (0..(n - 1)) \ used : i <= j
         IN <<id>> \o IdsFrom(Tail(vols), used \cup {id}, n)

\* The record of the k-th volume of `volumes` in the volume table on flash
RecordOf(k) == VtblOnFlash[IdsFrom(volumes, {}, Len(VtblOnFlash))[k] + 1]

\* The size in bytes the volume table reserves for the k-th volume
ReservedBytes(k) ==
    IF RecordOf(k) = None THEN 0
    ELSE RecordOf(k)[1].reserved_pebs * (eb_size - RecordOf(k)[1].data_pad)

\* C23: after write_volumes returns Ok, the volume table reserves at least
\* size(bytes) for every BasicVolume configured with a size:
\* reserved_pebs x leb_size >= bytes, Static or Dynamic, with or without an image.
C23_ReservedAtLeastSize ==
    vres = "ok" =>
        \A k \in 1..Len(volumes) :
            volumes[k].size # None => ReservedBytes(k) >= volumes[k].size[1]

\* The same for Static volumes only
StaticReservedAtLeastSize ==
    vres = "ok" =>
        \A k \in 1..Len(volumes) :
            (volumes[k].size # None /\ volumes[k].vtype = "Static")
                => ReservedBytes(k) >= volumes[k].size[1]

\* A Dynamic volume with a size and no image is recorded with reserved_pebs = 0
DynamicWithoutImageReservesNothing ==
    /\ vres = "ok"
    /\ \E k \in 1..Len(volumes) :
          /\ volumes[k].vtype = "Dynamic" /\ volumes[k].image = None
          /\ volumes[k].size # None /\ volumes[k].size[1] > 0
          /\ RecordOf(k) # None /\ RecordOf(k)[1].reserved_pebs = 0

\* The number of caller-supplied volumes the ubinizer has pulled
Pulled == Len(volumes) - Len(ubinizer.volumes)

\* The ubinizer is working on a caller-supplied volume
OnBasicVolume ==
    ubinizer.current_data # None /\ ubinizer.current_data[1].kind = "basic"

\* The number of volume-table records stored so far
Stored == IF OnBasicVolume THEN Pulled - 1 ELSE Pulled

\* The volume table where the ubinizer keeps it: in the layout volume and, once
\* that has been taken, in its data
TableOf(u) ==
    IF u.layout # None THEN u.layout
    ELSE IF u.current_data # None THEN Some(u.current_data[1].data) ELSE None

\* The ids the claim gives the volumes pulled so far
ClaimedIds == IdsFrom(SubSeq(volumes, 1, Pulled), {}, Len(LayoutVolume_new(eb_size)))

\* The assertion of store_record has failed, or its index was out of bounds: the
\* ubinizer stopped with the volume it could not record
StoreRecordPanicked == vres = "panic" /\ ubinizer.current_data # None

\* C35: the ubinizer gives each caller-supplied volume the ID it requested when that
\* slot of the layout volume is still free, and otherwise the lowest free slot; no
\* two volumes of one image ever receive the same volume ID, so the assertion in
\* store_record never fails.
C35_VolumeIds ==
    /\ ~StoreRecordPanicked
    /\ (ubinizer # <<>> /\ vres # "panic") =>
        /\ OnBasicVolume => ubinizer.current_id = ClaimedIds[Pulled]
        /\ \A i, j \in 1..Pulled : ClaimedIds[i] = ClaimedIds[j] => i = j
        /\ TableOf(ubinizer) # None =>
              LET records == TableOf(ubinizer)[1] IN
              /\ {k \in DOMAIN records : records[k] # None}
                    = {ClaimedIds[j] + 1 : j \in 1..Stored}
              /\ OnBasicVolume => records[ubinizer.current_id + 1] = None
        /\ \A k \in 1..Len(vlog) :
              vlog[k][2].vol_id \in {ClaimedIds[j] : j \in 1..Pulled}
                                      \cup {UBI_LAYOUT_VOLUME_ID}

\* A Static volume without a size is among the volumes: into_data panics on it
StaticWithoutSize ==
    \E k \in 1..Len(volumes) : volumes[k].vtype = "Static" /\ volumes[k].size = None

\* Next to nothing is left to the panic of expect("failed to allocate volume ID")
\* and none to the one of store_record: write_volumes panics only when there are
\* more volumes than slots, or on a Static volume without a size
PanicOnlyWithoutFreeSlot ==
    vres = "panic" =>
        (Len(volumes) > Len(LayoutVolume_new(eb_size)) \/ StaticWithoutSize)

\* write_volumes returned Ok for three volumes of which the first two asked for
\* id 0 and the third for none: they are recorded in slots 0, 1 and 2
SameRequestTwice ==
    /\ vres = "ok" /\ Len(volumes) = 3
    /\ volumes[1].id = Some(0) /\ volumes[2].id = Some(0) /\ volumes[3].id = None
    /\ ClaimedIds = <<0, 1, 2>>
    /\ \A k \in 1..3 : VtblOnFlash[k] # None

\* write_volumes returned Ok for a volume that asked for an id beyond the volume
\* table: its LEB is on flash with id 0, the lowest free slot
RequestBeyondTable ==
    /\ vres = "ok" /\ Len(volumes) = 1
    /\ volumes[1].id = Some(Len(LayoutVolume_new(eb_size)))
    /\ vlog[1][2].vol_id = 0
    /\ VtblOnFlash[1] # None /\ VtblOnFlash[1][1].reserved_pebs = 1

\* write_volumes returned Ok for three volumes: the first, with an image, asked for
\* id 2 and has it, slots 0 and 1 being free; the second asked for none and has
\* id 0; the third, with an image, asked for id 2 as well and has id 1.  The LEBs on
\* flash and the records of the volume table carry these ids.
C35_Witness ==
    /\ vres = "ok" /\ Len(volumes) = 3
    /\ volumes[1].id = Some(2) /\ volumes[2].id = None /\ volumes[3].id = Some(2)
    /\ volumes[1].image # None /\ volumes[2].image = None /\ volumes[3].image # None
    /\ Len(vlog) = 4
    /\ vlog[1][2].vol_id = 2 /\ vlog[2][2].vol_id = 1
    /\ VtblOnFlash[3][1].reserved_pebs = 1
    /\ VtblOnFlash[1][1].reserved_pebs = 0
    /\ VtblOnFlash[2][1].reserved_pebs = 1

\* The VID header v is one of the layout volume
IsLayoutVid(v) == v # None /\ v[1].vol_id = UBI_LAYOUT_VOLUME_ID

\* The table `records` holds, at slot index = volume ID, a record of every
\* caller-supplied volume, with its type and alignment, and nothing in the others
TableAsClaimed(records) ==
    LET ids == IdsFrom(volumes, {}, Len(records)) IN
    \A i \in DOMAIN records :
        IF \E k \in 1..Len(volumes) : ids[k] + 1 = i
        THEN LET k == CHOOSE j \in 1..Len(volumes) : ids[j] + 1 = i IN
             /\ records[i] # None
             /\ records[i][1].vol_type = volumes[k].vtype
             /\ records[i][1].alignment = volumes[k].alignment
        ELSE records[i] = None

\* C36: the ubinizer yields the two layout-volume LEBs only after every LEB of every
\* caller-supplied volume and yields nothing after them; their payload holds, at
\* slot index = volume ID, the volume-table record of every caller-supplied volume,
\* and an empty record in every other slot.
C36_LayoutVolumeLast ==
    [][vpc = "next" =>
         /\ (vpc' = "select" /\ IsLayoutVid(vvid')) =>
               /\ ubinizer'.volumes = <<>>
               /\ vvid'[1].lnum = IF IsLayoutVid(vvid) THEN 1 ELSE 0
               /\ Len(vdata') >= 2 /\ vdata'[2][1] = "vtbl"
               /\ TableAsClaimed(vdata'[2][2])
         /\ (vpc' = "select" /\ IsLayoutVid(vvid)) => IsLayoutVid(vvid')
         /\ (IsLayoutVid(vvid) /\ vvid[1].lnum = 1) => (vpc' = "done" /\ vres' = "ok")
         /\ vpc' = "done" => (IsLayoutVid(vvid) /\ vvid[1].lnum = 1)]_vars

\* write_volumes returned Ok for two volumes or more: the LEBs written last are the
\* two of the layout volume, and the table on flash has records and an empty slot
C36_Witness ==
    /\ vres = "ok" /\ Len(volumes) >= 2 /\ Len(vlog) >= 4
    /\ \A k \in 1..Len(vlog) :
          (vlog[k][2].vol_id = UBI_LAYOUT_VOLUME_ID) <=> (k >= Len(vlog) - 1)
    /\ TableAsClaimed(VtblOnFlash)
    /\ \E i, j \in DOMAIN VtblOnFlash : VtblOnFlash[i] # None /\ VtblOnFlash[j] = None

\* The LEBs on flash of the k-th volume of `volumes`
ProducedBy(k) == LebsOf(IdsFrom(volumes, {}, Len(VtblOnFlash))[k])

RECURSIVE PayloadBytes(_, _)
\* The bytes of image data on the pages p.. of block blk
PayloadBytes(blk, p) ==
    IF p >= PagesPerBlock THEN 0
    ELSE (IF read_page(blk, PagesPerBlock, p)[1] = "fill" THEN read_page(blk, PagesPerBlock, p)[3] ELSE 0)
         + PayloadBytes(blk, p + 1)

\* ceil(S / L) for the k-th volume, S its declared size and L its LEB size
CeilLebs(k) ==
    LET L == eb_size - (eb_size % volumes[k].alignment)
    IN (volumes[k].size[1] + L - 1) \div L

\* The k-th volume is Static and its image supplies the declared size
WholeStatic(k) ==
    /\ volumes[k].vtype = "Static" /\ volumes[k].image # None
    /\ volumes[k].image[1].len >= volumes[k].size[1]

\* A Static volume whose image supplies its S bytes is on flash as ceil(S / L) LEBs
\* with lnum 0..ceil(S / L), used_ebs = ceil(S / L) and data_size the bytes of the LEB
WholeStaticOnFlash(k) ==
    WholeStatic(k) =>
        /\ Cardinality(ProducedBy(k)) = CeilLebs(k)
        /\ {x[2].lnum : x \in ProducedBy(k)} = 0..(CeilLebs(k) - 1)
        /\ \A x \in ProducedBy(k) :
              /\ x[2].used_ebs = CeilLebs(k)
              /\ x[2].data_size = PayloadBytes(nand[x[1]], 2)
              /\ x[2].data_size =
                    Min(eb_size, volumes[k].size[1] - x[2].lnum * eb_size)

\* C37: the volume-table record a volume yields when it is exhausted has
\* reserved_pebs equal to the number of LEBs the volume actually produced; for a
\* Static volume of declared size S and LEB size L whose image supplies S bytes this
\* is ceil(S / L) LEBs with lnum 0..ceil(S / L), used_ebs = ceil(S / L) and data_size
\* equal to the bytes in each LEB.
C37_ReservedIsProduced ==
    vres = "ok" =>
        \A k \in 1..Len(volumes) :
            /\ RecordOf(k)[1].reserved_pebs = Cardinality(ProducedBy(k))
            /\ WholeStaticOnFlash(k)

\* Every Static volume has an image that supplies the declared size
StaticImagesWhole ==
    \A k \in 1..Len(volumes) : volumes[k].vtype = "Static" => WholeStatic(k)

\* The same when every Static volume's image supplies the declared size
ReservedIsProducedForWholeImages == StaticImagesWhole => C37_ReservedIsProduced

\* The second half alone: a Static volume whose image supplies its size is on
\* flash as the claim says
WholeStaticAsClaimed ==
    vres = "ok" => \A k \in 1..Len(volumes) : WholeStaticOnFlash(k)

\* write_volumes returned Ok for a Static volume whose image supplies its size, on
\* two LEBs of which the last is partly filled, and two PEBs are reserved for it
WholeStaticReservesProduced ==
    /\ vres = "ok"
    /\ \E k \in 1..Len(volumes) :
          /\ WholeStatic(k) /\ CeilLebs(k) = 2
          /\ \E x \in ProducedBy(k) : x[2].lnum = 1 /\ x[2].data_size = 1
          /\ RecordOf(k)[1].reserved_pebs = 2

\* write_volumes returned Ok for a Dynamic volume that produced a LEB: one PEB is
\* reserved for it
DynamicReservesProduced ==
    /\ vres = "ok"
    /\ \E j \in 1..Len(volumes) :
          /\ volumes[j].vtype = "Dynamic" /\ Cardinality(ProducedBy(j)) = 1
          /\ RecordOf(j)[1].reserved_pebs = 1

\* write_volumes returned Ok for a Static volume whose image is shorter than its
\* size: more PEBs are reserved than LEBs were produced
StaticShortImageReservesMore ==
    /\ vres = "ok"
    /\ \E k \in 1..Len(volumes) :
          /\ volumes[k].vtype = "Static" /\ ~WholeStatic(k)
          /\ RecordOf(k)[1].reserved_pebs = 2 /\ Cardinality(ProducedBy(k)) = 1

\* The step is an iteration of write_volumes' program loop whose
\* block.program(1, &data) failed, and nothing else failed in it
ProgramFailedAlone ==
    /\ vpc = "program" /\ vlog' = vlog
    /\ budget - budget' =
          (IF program(nand[block_id], PagesPerBlock, 1, vdata).ok THEN 1 ELSE 0)

\* The step programs the buffer of the LEB on the selected block from page 1
ProgramsFromPage1 ==
    (vpc = "program" /\ vlog' # vlog) =>
        /\ vlog' = Append(vlog, <<block_id, vvid[1]>>)
        /\ read_page(nand'[block_id], PagesPerBlock, 0) = read_page(nand[block_id], PagesPerBlock, 0)
        /\ \A p \in 1..(PagesPerBlock - 1) :
              read_page(nand'[block_id], PagesPerBlock, p) =
                  (IF p <= Len(vdata) THEN vdata[p] ELSE ErasedPage)

\* After a first failure the block is erased, gets its EC header with the erase
\* count incremented by 1, and the program is tried again
RetriesAfterFirstFailure ==
    (ProgramFailedAlone /\ ~tried_erase) =>
        /\ nand'[block_id] = [NewBlock EXCEPT !.data = <<EcEncode(inc_ec(sel_ec[1]))>>]
        /\ tried_erase' /\ vpc' = "program" /\ block_id' = block_id

\* After a second failure the block is marked bad on the device and in the Ebt,
\* and another block is selected
GivesUpAfterSecondFailure ==
    (ProgramFailedAlone /\ tried_erase) =>
        /\ nand'[block_id].marked_bad /\ ebt'[block_id] = Bad
        /\ vpc' = "select"

\* The LEB stays the same, VID header and sequence number included, until it is
\* programmed
KeepsLeb == (vpc \in {"select", "program"}) => (vvid' = vvid /\ vdata' = vdata)

\* C26: for each LEB, write_volumes programs the selected block from page 1;
\* after a first program failure it erases the block, rewrites its EC header with
\* the erase count incremented by 1 and retries the program exactly once; after a
\* second failure it marks the block bad on the device and in the Ebt and places
\* the same LEB (same VID, same sqnum) on the next selected block.
C26_ProgramRetry ==
    [][ProgramsFromPage1 /\ RetriesAfterFirstFailure /\ GivesUpAfterSecondFailure
         /\ KeepsLeb]_vars

\* The program has just failed for the second time on the selected block: the
\* block was erased and tried again, and is now marked bad
SecondFailure ==
    /\ vpc = "select" /\ tried_erase
    /\ nand[block_id].marked_bad /\ ebt[block_id] = Bad
    /\ badLog # <<>> /\ badLog[Len(badLog)] = <<block_id, vvid[1]>>

\* write_volumes returned Ok after a block was marked bad and its LEB went to
\* another block with the same VID header
C26_Witness ==
    /\ vres = "ok"
    /\ \E k \in 1..Len(badLog) : \E i \in 1..Len(vlog) :
          /\ vlog[i][2] = badLog[k][2] /\ vlog[i][1] # badLog[k][1]
          /\ nand[badLog[k][1]].marked_bad /\ ebt[badLog[k][1]] = Bad
          /\ VidDecode(read_page(nand[vlog[i][1]], PagesPerBlock, 1)) = Some(vlog[i][2])

\* The blocks block_ordering has not yielded yet
Candidates ==
    {bucket[i] : i \in 1..Len(bucket)}
        \cup UNION {{blocks_by_ec[k][i] : i \in 1..Len(blocks_by_ec[k])} :
                       k \in DOMAIN blocks_by_ec}

\* The selector yields a candidate as long as there is one
SelectorNeverStarves ==
    (vpc = "select" /\ Candidates # {}) =>
        LET n == ordering_next(blocks_by_ec, bucket) IN
        n.block # None /\ n.block[1] \in Candidates

\* While a block is being selected, the candidates left are the blocks whose
\* entry is still EcErased, and the selector yields one of them if there is any
SelectorYields ==
    /\ vpc = "select" => Candidates = {b \in DOMAIN ebt : ebt[b][1] = "EcErased"}
    /\ SelectorNeverStarves

\* The step is the one in which write_volumes fails with "Flash is full"
FlashFull == vpc = "select" /\ vres' = "err"

\* C27: write_volumes fails with "Flash is full" only when every block that was
\* EcErased in the Ebt at entry has received a LEB or been marked bad (no entry is
\* EcErased any more); as long as an unused EcErased candidate remains in the
\* placement map, the selector yields one.
C27_FlashFullOnlyWhenExhausted ==
    /\ []SelectorYields
    /\ [][FlashFull =>
            \A b \in DOMAIN ebt :
                \/ ebt[b] = Bad
                \/ ebt[b][1] = "EcData" /\ b \in LebBlocks]_vars

\* write_volumes has failed with "Flash is full" after it placed LEBs on blocks
\* and gave a block up as bad
C27_Witness ==
    /\ vres = "err" /\ vpc = "end" /\ Candidates = {}
    /\ \A b \in DOMAIN ebt : ebt[b][1] # "EcErased"
    /\ Len(vlog) >= 2 /\ badLog # <<>>

\* The blocks write_volumes has given up as bad
GivenUp == {badLog[k][1] : k \in 1..Len(badLog)}

\* The step selects a block: its entry is EcErased, it is not marked bad, and it
\* was not selected before
SelectsFreshBlock ==
    (vpc = "select" /\ vpc' = "program") =>
        /\ ebt[block_id'][1] = "EcErased" /\ ebt[block_id'] # Bad
        /\ ~nand[block_id'].marked_bad
        /\ block_id' \notin LebBlocks \cup GivenUp
        /\ block_id' \notin Candidates'

\* C29: write_volumes selects only blocks whose Ebt entry is EcErased at the
\* moment of selection, never a Bad block and never the same physical block
\* twice; the unreachable!() branch is never reached, and a block that already
\* holds a written LEB is never programmed again.
C29_SelectsErasedOnce ==
    /\ [][SelectsFreshBlock]_vars
    /\ [][vpc = "select" => vres' # "panic"]_vars
    /\ [](vpc = "program" => block_id \notin LebBlocks)
    /\ [](\A i, j \in 1..Len(vlog) : vlog[i][1] = vlog[j][1] => i = j)

\* write_volumes returned Ok after it selected four blocks, one of which it gave
\* up as bad
C29_Witness ==
    /\ vres = "ok"
    /\ Cardinality(LebBlocks) = 3 /\ Len(vlog) = 3
    /\ Cardinality(GivenUp) = 1 /\ GivenUp \cap LebBlocks = {}

\* write_volumes returned Ok after a block was given up while a layout volume LEB
\* was being written
C9_Witness ==
    /\ vres = "ok"
    /\ Cardinality(LebsOf(UBI_LAYOUT_VOLUME_ID)) = 2
    /\ \E k \in 1..Len(badLog) : badLog[k][2].vol_id = UBI_LAYOUT_VOLUME_ID

(***************************************************************************)
(* Claims about the raw image writer and bad blocks.                       *)
(***************************************************************************)
\* The number of chunks of block_size bytes write_raw_image reads from the image
NumChunks == (Len(image) + block_size - 1) \div block_size

\* Chunk j of the image, j = 1..NumChunks
ImageChunk(j) ==
    SubSeq(image, (j - 1) * block_size + 1, Min(j * block_size, Len(image)))

\* The blocks that write_raw_image found marked bad: they are marked bad and the
\* run has issued no erase and no program on them
FoundBad ==
    {b \in DOMAIN nand :
        nand[b].marked_bad /\ \A i \in 1..Len(rops) : rops[i][2] # b}

\* The blocks that were good when write_raw_image was called, in ascending order
GoodBlocks == Ascending(DOMAIN nand \ FoundBad)

\* A first run of write_raw_image with skip_bad = true, the device not failing,
\* has returned, and the partition had a good block for every chunk
SkipRunOver ==
    /\ skip_bad /\ rrun = 1 /\ cuts = 0 /\ budget = MaxFaults
    /\ rpc \in {"done", "end"}
    /\ Len(GoodBlocks) >= NumChunks

\* Such a run returns Ok
SkipRunReturnsOk == SkipRunOver => rres = "ok"

\* Such a run, when it returns Ok, has put chunk j on the j-th good block
SkipRunPlacesInOrder ==
    (SkipRunOver /\ rres = "ok") =>
        /\ Len(placed) = NumChunks
        /\ \A j \in 1..Len(placed) :
              placed[j] = <<GoodBlocks[j], ImageChunk(j)>>

\* Such a run, when it returns Ok, leaves every chunk on its block from page 0 on
SkipRunBlocksHoldChunks ==
    (SkipRunOver /\ rres = "ok") =>
        \A j \in 1..Len(placed) : HoldsChunk(nand[placed[j][1]], placed[j][2])

\* No chunk of the image starts with a page of 0xFF
NoErasedFirstPage ==
    \A j \in 1..NumChunks : ~is_erased(ChunkPages(ImageChunk(j))[1])

\* The three properties, for images none of whose chunks starts with a page of 0xFF
SkipRunWritesPlainImages ==
    NoErasedFirstPage =>
        (SkipRunReturnsOk /\ SkipRunPlacesInOrder /\ SkipRunBlocksHoldChunks)

\* C15: with skip_bad = true, write_raw_image skips every block marked bad and
\* writes the chunks of the image, in order, to the successive good blocks, and
\* returns Ok.
C15_SkipBadUsesGoodBlocks ==
    SkipRunReturnsOk /\ SkipRunPlacesInOrder /\ SkipRunBlocksHoldChunks

\* C16: with skip_bad = false, write_raw_image returns an error as soon as the next
\* target block is found marked bad, and issues no erase or program on any block
\* after it.
C16_NoSkipStopsAtBadBlock ==
    ~skip_bad =>
        \A b \in FoundBad :
            /\ \A i \in 1..Len(rops) : rops[i][2] < b
            /\ b < block_index =>
                  (rpc = "end" /\ rres = "err" /\ block_index = b + 1)

\* A chunk was written to block 0, block 1 was found bad, and a good block follows
C16_Witness ==
    /\ ~skip_bad /\ rpc = "end" /\ rres = "err"
    /\ Len(placed) = 1 /\ block_index = 2
    /\ 1 \in FoundBad
    /\ ~nand[2].marked_bad

\* The step is an iteration of `for _ in 0..5` in which update_raw_block
\* returned an error
UpdateFailed == rpc = "update" /\ rpc' # "cut" /\ placed' = placed

\* The step gives the block up: it is marked bad
GivesUp == UpdateFailed /\ nand'[block_index - 1].marked_bad

\* After a failed update that is not the last attempt the block is erased and
\* the update is tried again with the same chunk
RetriesAfterErase ==
    (UpdateFailed /\ attempt + 1 < ATTEMPTS /\ rres' # "err") =>
        /\ nand'[block_index - 1] = erase(nand[block_index - 1])
        /\ rpc' = "update" /\ data' = data /\ block_index' = block_index
        /\ attempt' = attempt + 1

\* The chunk stays the same until it is placed
KeepsChunk == (rpc \in {"find", "update"}) => data' = data

\* C30 as stated: a failed update is followed by an erase and a retry, up to 5
\* retries; once they are exhausted the block is marked bad and the same chunk
\* goes to the next physical block.
C30_FiveRetries ==
    [][/\ RetriesAfterErase /\ KeepsChunk
       /\ GivesUp => (attempt' = ATTEMPTS + 1 /\ rpc' = "find")]_vars

\* C30 amended: update_raw_block is attempted at most 5 times on a block, the
\* first attempt and up to 4 retries, each after an erase; after the fifth failure
\* the block is erased and marked bad, and then the same chunk goes to the next
\* physical block if skip_bad is set, and write_raw_image returns an error if not.
C30_FiveAttempts ==
    [][/\ RetriesAfterErase /\ KeepsChunk
       /\ GivesUp =>
             /\ attempt' = ATTEMPTS
             /\ nand'[block_index - 1] = mark_bad(erase(nand[block_index - 1]))
             /\ IF skip_bad THEN rpc' = "find" /\ block_index' = block_index
                ELSE rres' = "err" /\ rpc' = "end"]_vars

\* The programs of the current run on block c
ProgramsOn(c) == {k \in 1..Len(rops) : rops[k][1] = "program" /\ rops[k][2] = c}

\* write_raw_image returned Ok after five programs failed on a block, which is
\* marked bad, and the chunk went to the next block
C30_Witness ==
    /\ rres = "ok" /\ skip_bad
    /\ \E j \in 1..Len(placed) :
          LET c == placed[j][1] - 1 IN
          /\ c \in DOMAIN nand /\ nand[c].marked_bad
          /\ Cardinality(ProgramsOn(c)) = ATTEMPTS
          /\ HoldsChunk(nand[placed[j][1]], placed[j][2])

\* write_raw_image is running
RawRunning == rpc \in {"read", "find", "update"}

\* write_raw_image has returned, or power is lost
RawReturned == rpc \in {"done", "end", "cut"}

\* Ok is returned at the end of the image only, and block_index never passes the
\* number of blocks: the call that finds it there returns an error
RawReturnsInBounds ==
    /\ rres = "ok" => (pos = Len(image) /\ Len(placed) = NumChunks)
    /\ block_index <= NumBlocks(nand)
    /\ (rpc = "update" \/ (rpc = "find" /\ block_index = NumBlocks(nand)))
          => data # <<>>

\* C39: write_raw_image terminates for every finite image and every pattern of bad
\* blocks and erase/program failures: it returns Ok once the input reaches EOF, or
\* an error at the latest when the block index runs past the last block; it never
\* loops forever searching for a good block.
C39_RawWriterTerminates ==
    /\ RawRunning ~> RawReturned
    /\ (rpc = "find" /\ block_index = NumBlocks(nand)) ~> (rres \in {"err", "cut"})
    /\ []RawReturnsInBounds

\* With skip_bad, write_raw_image has looked at every block, the last ones marked
\* bad, and returned an error with a chunk left to write
C39_Witness ==
    /\ skip_bad /\ rpc = "end" /\ rres = "err"
    /\ block_index = NumBlocks(nand) /\ data # <<>>
    /\ nand[NumBlocks(nand) - 1].marked_bad
    /\ (NumBlocks(nand) - 1) \in FoundBad

\* write_raw_image returned an error after it gave a block up without skip_bad
GivesUpWithoutSkip ==
    /\ rres = "err" /\ ~skip_bad /\ block_index >= 1
    /\ nand[block_index - 1].marked_bad
    /\ Cardinality(ProgramsOn(block_index - 1)) = ATTEMPTS

(***************************************************************************)
(* The NAND operations exercised on their own: programs of any pages at    *)
(* any start page, erases, mark_bad and loads, on a SimNand of one block.  *)
(***************************************************************************)
\* The pages given to program: erased, data, data padded with 0xFF, an EC header,
\* a VID header
OpPages ==
    { ErasedPage, DataPage(1),
      <<"raw", 1>> \o [i \in 1..(BytesPerPage - 1) |-> 255],
      EcEncode(EcA), VidEncode(OldVid) }

\* The contents given to program: one page or two
OpContents == {<<p>> : p \in OpPages} \cup {<<p, q>> : p \in OpPages, q \in OpPages}

Max(a, b) == IF a > b THEN a ELSE b

\* The number of leading pages of content that NandBlock::program writes before
\* it returns
PagesDone(blk, ppb, start_page, content) ==
    CHOOSE k \in 0..Len(content) :
        /\ program(blk, ppb, start_page, SubSeq(content, 1, k)).ok
        /\ k = Len(content)
             \/ ~program(blk, ppb, start_page, SubSeq(content, 1, k + 1)).ok

\* The highest page among the first k pages of a program that holds other bytes
\* than 0xFF, -1 if there is none
LastDataPage(start_page, content, k) ==
    LET S == {start_page + i - 1 : i \in {x \in 1..k : ~is_erased(content[x])}}
    IN IF S = {} THEN -1 ELSE CHOOSE m \in S : \A y \in S : y <= m

\* SimNand::new with a layout of one block
OpInit ==
    /\ nand = [b \in {0} |-> NewBlock]
    /\ budget = 0
    /\ cuts = 0
    /\ FormatIdle
    /\ RawIdle
    /\ VolIdle
    /\ XIdle
    /\ top = [b \in {0} |-> [any |-> -1, data |-> -1]]

\* nand.block(b)?.unwrap().program(start_page, content), whatever it returns
OpProgram ==
    \E b \in DOMAIN nand : \E start_page \in 0..PagesPerBlock : \E content \in OpContents :
        /\ block(nand, b) # None
        /\ LET k == PagesDone(nand[b], PagesPerBlock, start_page, content) IN
           /\ nand' = [nand EXCEPT
                         ![b] = program(nand[b], PagesPerBlock, start_page, content).blk]
           /\ top' = [top EXCEPT
                        ![b] = [any |-> IF k = 0 THEN @.any
                                        ELSE Max(@.any, start_page + k - 1),
                                data |-> Max(@.data, LastDataPage(start_page, content, k))]]
        /\ UNCHANGED <<budget, cuts, fvars, rawvars, volvars, xvars>>

\* The contents SimNand::load reads for a block: j pages p, then pages q
LoadContents ==
    {[i \in 1..PagesPerBlock |-> IF i <= j THEN p ELSE q] :
        p \in OpPages, q \in OpPages, j \in 0..PagesPerBlock}

\* SimNand::load on the layout of one block: the bad-block mark is cleared; then
\* read_exact fails on a file shorter than a block and load returns the error with
\* nothing programmed, or the whole block is programmed from page 0, whatever
\* the program returns
OpLoad ==
    LET b == 0
        blk == [nand[b] EXCEPT !.marked_bad = FALSE]
    IN /\ DOMAIN nand = {b}
       /\ \/ /\ nand' = [nand EXCEPT ![b] = blk]
             /\ UNCHANGED top
          \/ \E content \in LoadContents :
                LET k == PagesDone(blk, PagesPerBlock, 0, content) IN
                /\ nand' = [nand EXCEPT
                              ![b] = program(blk, PagesPerBlock, 0, content).blk]
                /\ top' = [top EXCEPT
                             ![b] = [any |-> IF k = 0 THEN @.any ELSE Max(@.any, k - 1),
                                     data |-> Max(@.data, LastDataPage(0, content, k))]]
       /\ UNCHANGED <<budget, cuts, fvars, rawvars, volvars, xvars>>

\* nand.block(b)?.unwrap().erase()
OpErase ==
    \E b \in DOMAIN nand :
        /\ block(nand, b) # None
        /\ nand' = [nand EXCEPT ![b] = erase(nand[b])]
        /\ top' = [top EXCEPT ![b] = [any |-> -1, data |-> -1]]
        /\ UNCHANGED <<budget, cuts, fvars, rawvars, volvars, xvars>>

\* nand.block(b)?.unwrap().mark_bad()
OpMarkBad ==
    \E b \in DOMAIN nand :
        /\ block(nand, b) # None
        /\ nand' = [nand EXCEPT ![b] = mark_bad(nand[b])]
        /\ top' = [top EXCEPT ![b] = [any |-> -1, data |-> -1]]
        /\ UNCHANGED <<budget, cuts, fvars, rawvars, volvars, xvars>>

OpNext == OpProgram \/ OpErase \/ OpMarkBad \/ OpLoad

\* Any sequence of NAND operations on a new SimNand
SpecOps == OpInit /\ [][OpNext]_vars

(***************************************************************************)
(* Claims about check_raw_block, on the blocks any sequence of NAND        *)
(* operations leaves.                                                      *)
(***************************************************************************)
\* The slices check_raw_block is tried with: the leading bytes of the images, up
\* to the size of the block
TestData ==
    UNION {{SubSeq(img, 1, n) : n \in 0..Min(Len(img), PagesPerBlock * BytesPerPage)} :
              img \in Images}

\* The number of block pages a slice extends over
DataPages(d) == (Len(d) + BytesPerPage - 1) \div BytesPerPage

\* The bytes of a slice that fall on page p
PageOf(d, p) == SubSeq(d, p * BytesPerPage + 1, Min((p + 1) * BytesPerPage, Len(d)))

\* Page p of the block starts with the bytes of the slice that fall on it
PageAgrees(blk, d, p) ==
    /\ read_page(blk, PagesPerBlock, p)[1] = "raw"
    /\ SubSeq(Tail(read_page(blk, PagesPerBlock, p)), 1, Len(PageOf(d, p))) = PageOf(d, p)

\* The number of leading pages of the block that match the slice
MatchingPages(blk, d) ==
    CHOOSE n \in 0..DataPages(d) :
        /\ \A p \in 0..(n - 1) : PageAgrees(blk, d, p)
        /\ n = DataPages(d) \/ ~PageAgrees(blk, d, n)

\* The result the claim gives for check_raw_block
ExpectedCheck(blk, ppb, d) ==
    LET n == MatchingPages(blk, d) IN
    IF n = DataPages(d) THEN Some(n)
    ELSE IF \A p \in n..(ppb - 1) : is_erased(read_page(blk, ppb, p)) THEN Some(n)
    ELSE None

\* The slice agrees with the block on every page of the written area it extends
\* over: it is, or begins with, or is the beginning of, what was programmed
AgreesOnWritten(blk, d) ==
    \A p \in 0..(Min(DataPages(d), Len(blk.data)) - 1) : PageAgrees(blk, d, p)

\* The slice with byte i changed to v
Flip(d, i, v) == [d EXCEPT ![i] = v]

\* C17: check_raw_block(block, data) returns Some(n), n being the number of leading
\* block pages that match data, when all of data matched or when every page from
\* the first mismatching page to the end of the block is erased, and None when the
\* first mismatching page or a page after it is not erased, or when a read
\* fails; it returns Some(0) for empty data and Some(k) for k pages of 0xFF on an
\* erased block; changing a byte of the data inside the written prefix of a block
\* programmed with it yields None.
C17_CheckRawBlock ==
    \A b \in DOMAIN nand :
        /\ check_raw_block(nand[b], PagesPerBlock, <<>>, TRUE) = Some(0)
        /\ check_raw_block(nand[b], PagesPerBlock, <<>>, FALSE) = Some(0)
        /\ \A d \in TestData :
              /\ d # <<>> => check_raw_block(nand[b], PagesPerBlock, d, FALSE) = None
              /\ check_raw_block(nand[b], PagesPerBlock, d, TRUE)
                    = ExpectedCheck(nand[b], PagesPerBlock, d)
              /\ (nand[b].data = <<>> /\ \A i \in 1..Len(d) : d[i] = 255)
                    => check_raw_block(nand[b], PagesPerBlock, d, TRUE) = Some(DataPages(d))
              /\ AgreesOnWritten(nand[b], d) =>
                    \A i \in 1..Min(Len(d), Len(nand[b].data) * BytesPerPage) :
                        \A v \in {0, 1, 255} \ {d[i]} :
                            check_raw_block(nand[b], PagesPerBlock, Flip(d, i, v), TRUE) = None

\* A block written in part, with a slice that matches its first pages only and a
\* slice that calls for an erase
C17_Witness ==
    \E b \in DOMAIN nand : \E d1, d2 \in TestData :
        /\ Len(nand[b].data) \in 1..(PagesPerBlock - 1)
        /\ check_raw_block(nand[b], PagesPerBlock, d1, TRUE) # None
        /\ check_raw_block(nand[b], PagesPerBlock, d1, TRUE)[1] \in 1..(DataPages(d1) - 1)
        /\ check_raw_block(nand[b], PagesPerBlock, d2, TRUE) = None

(***************************************************************************)
(* Claims about the order of programs within a block.                      *)
(***************************************************************************)
\* Every program on block b whose start page does not exceed n fails
FrozenUpTo(b, n) ==
    \A start_page \in 0..n : \A content \in OpContents :
        ~program(nand[b], PagesPerBlock, start_page, content).ok

\* C18 as stated: once page n of a block has been programmed, whatever the content,
\* every later program whose start page does not exceed n fails until the block
\* is erased, after any sequence of program and erase operations.
C18_ProgramsInOrder ==
    \A b \in DOMAIN nand : ~nand[b].marked_bad => FrozenUpTo(b, top[b].any)

\* C18 amended: once page n of a block has been programmed with content that is
\* not all 0xFF, every later program whose start page does not exceed n fails until
\* the block is erased; a program of all-0xFF pages is a no-op and freezes nothing.
C18_DataProgramsInOrder ==
    \A b \in DOMAIN nand : ~nand[b].marked_bad => FrozenUpTo(b, top[b].data)

\* A block with data programmed up to a page beyond the first, and a page of 0xFF
\* programmed above its data
C18_Witness ==
    \E b \in DOMAIN nand :
        /\ ~nand[b].marked_bad
        /\ top[b].data >= 1
        /\ top[b].any > top[b].data
        /\ Len(nand[b].data) = top[b].data + 1

(***************************************************************************)
(* Claims about Nand::block and bad blocks, while the formatter runs.      *)
(***************************************************************************)
\* Nand::block(index) is an error exactly when index >= blocks, and None exactly
\* when the block is marked bad
BlockAnswers ==
    \A index \in 0..(NumBlocks(nand) + 1) :
        /\ IsErr(block(nand, index)) <=> (index >= NumBlocks(nand))
        /\ index < NumBlocks(nand) =>
              ((block(nand, index) = None) <=> nand[index].marked_bad)

\* A block that Nand::block answers None for is answered None for ever after
BadIsTerminal ==
    \A index \in DOMAIN nand :
        nand[index].marked_bad => (nand'[index].marked_bad /\ block(nand', index) = None)

\* C19: Nand::block(index) returns an error exactly when index >= blocks and None
\* exactly when the block is marked bad; once a block has been marked bad, every
\* later block(index) for it returns None, whatever operations follow.
C19_BlockAndBadMarks == []BlockAnswers /\ [][BadIsTerminal]_vars

\* format marked a block bad, and a later format has erased and programmed others
C19_Witness ==
    /\ round = 2 /\ execLog # <<>>
    /\ \E i \in DOMAIN nand :
          /\ nand[i].marked_bad /\ block(nand, i) = None
          /\ prevScan = None /\ lastScan # None /\ lastScan[1][i] = Bad
          /\ \E j \in DOMAIN nand : j # i /\ ~nand[j].marked_bad

(***************************************************************************)
(* Claims about the scanner, on the blocks any sequence of NAND operations *)
(* leaves.                                                                 *)
(***************************************************************************)
\* What the claim gives for a block that is not marked bad, where it says something
ScanAsClaimed(blk, c) ==
    LET p0 == read_page(blk, PagesPerBlock, 0)
        p1 == read_page(blk, PagesPerBlock, 1)
        pages == 0..(PagesPerBlock - 1)
    IN /\ VidDecode(p0) # None => c = RawVid(VidDecode(p0)[1])
       /\ (\A p \in pages : is_erased(read_page(blk, PagesPerBlock, p))) => c = Erased
       /\ (/\ VidDecode(p0) = None /\ EcDecode(p0) = None
           /\ \E p \in pages : ~is_erased(read_page(blk, PagesPerBlock, p))) => c = Garbage
       /\ (EcDecode(p0) # None /\ ~is_erased(p1))
             => c = EcData(EcDecode(p0)[1], VidDecode(p1))

\* C20: scan_blocks returns one entry per block; a block marked bad is Bad; a
\* block whose page 0 decodes as a VID header is RawVid(vid), whatever its other
\* pages hold; a block with every page 0xFF is Erased; a block with no UBI header
\* on page 0 and a page that is not erased is Garbage; a block with an EC header
\* on page 0 and a page 1 that is not erased is EcData(ec, vid), vid being present
\* iff page 1 decodes as a VID header.
C20_ScanClassifies ==
    LET e == scan_blocks(nand, PagesPerBlock) IN
    /\ DOMAIN e = DOMAIN nand
    /\ \A b \in DOMAIN nand :
          IF nand[b].marked_bad THEN e[b] = Bad ELSE ScanAsClaimed(nand[b], e[b])

\* A block with an EC header, a VID header on page 1 and data is scanned as EcData
\* with its VID header
C20_Witness ==
    \E b \in DOMAIN nand :
        /\ ~nand[b].marked_bad
        /\ EcDecode(read_page(nand[b], PagesPerBlock, 0)) # None
        /\ VidDecode(read_page(nand[b], PagesPerBlock, 1)) # None
        /\ ~is_erased(read_page(nand[b], PagesPerBlock, 2))
        /\ scan_blocks(nand, PagesPerBlock)[b]
             = EcData(EcA, Some(OldVid))

\* Block blk, scanned as c: when c is EcErased(ec), page 0 holds ec and the pages
\* 1..last are erased; when page 0 holds an EC header and one of the pages 1..last
\* is not erased, c is EcData
EcErasedUpTo(blk, c, last) ==
    LET p0 == read_page(blk, PagesPerBlock, 0) IN
    /\ c[1] = "EcErased" =>
          /\ EcDecode(p0) = Some(c[2])
          /\ \A p \in 1..last : is_erased(read_page(blk, PagesPerBlock, p))
    /\ (/\ VidDecode(p0) = None /\ EcDecode(p0) # None
        /\ \E p \in 1..last : ~is_erased(read_page(blk, PagesPerBlock, p))) => c[1] = "EcData"

\* C34: whenever scan_blocks classifies a block as EcErased(ec), page 0 of that
\* block holds the valid EC header ec and every later page of the block is erased,
\* for blocks of any page count; a block with a valid EC header and any non-erased
\* later page is classified EcData.
C34_EcErasedIsErased ==
    \A b \in DOMAIN nand :
        ~nand[b].marked_bad =>
            EcErasedUpTo(nand[b], scan_blocks(nand, PagesPerBlock)[b], PagesPerBlock - 1)

\* What scan_block ensures: the same for the pages it reads after an EC header,
\* those of the first chunk of PAGE_CHUNKS pages
EcErasedFirstChunkIsErased ==
    \A b \in DOMAIN nand :
        ~nand[b].marked_bad =>
            EcErasedUpTo(nand[b], scan_blocks(nand, PagesPerBlock)[b],
                         Min(PagesPerBlock, SCAN_PAGE_CHUNKS) - 1)

\* A block with an EC header, erased pages up to the end of the first chunk and a
\* page of data after it is scanned as EcErased
EcErasedWithData ==
    \E b \in DOMAIN nand :
        /\ ~nand[b].marked_bad
        /\ scan_blocks(nand, PagesPerBlock)[b][1] = "EcErased"
        /\ \E p \in SCAN_PAGE_CHUNKS..(PagesPerBlock - 1) : ~is_erased(read_page(nand[b], PagesPerBlock, p))

(***************************************************************************)
(* The EROFS size probe (src/src/image.rs).  An unsigned integer is the     *)
(* set of the positions of its 1 bits, so that 64-bit values are exact.     *)
(***************************************************************************)
EROFS_SUPER_MAGIC_V1 == "E0F5E1E2"

\* u64::checked_shl(rhs): None iff rhs is at least the number of bits of u64;
\* bits shifted past bit 63 are dropped
checked_shl(x, rhs) ==
    IF rhs >= 64 THEN None ELSE Some({b + rhs : b \in x} \cap (0..63))

\* erofs_size, after the superblock has been read
erofs_size(sb) ==
    IF sb.magic # EROFS_SUPER_MAGIC_V1 THEN Err
    ELSE IF ~sb.cksum_ok THEN Err
    ELSE LET r == checked_shl(sb.blocks, sb.blkszbits) IN
         IF r = None THEN Err ELSE r

\* Most 1 bits of `blocks` in the inputs, besides 0xFFFFFFFF
MaxSetBits == 1

RECURSIVE BitSets(_)
\* The u32 values with at most k bits set
BitSets(k) ==
    IF k = 0 THEN {{}}
    ELSE BitSets(k - 1) \cup {x \cup {b} : x \in BitSets(k - 1), b \in (0..31)}

ProbeBlocks == BitSets(MaxSetBits) \cup {(0..31)}

ProbeInit ==
    /\ \E blocks \in ProbeBlocks : \E blkszbits \in 0..255 :
       \E magic \in {EROFS_SUPER_MAGIC_V1, "00000000"} : \E cksum_ok \in BOOLEAN :
          /\ magic # EROFS_SUPER_MAGIC_V1 => (blocks = {12} /\ blkszbits = 12)
          /\ ~cksum_ok => (blocks = {12} /\ blkszbits = 12)
          /\ superblock = [magic |-> magic, cksum_ok |-> cksum_ok,
                           blocks |-> blocks, blkszbits |-> blkszbits]
    /\ erofs_result = <<>>
    /\ nand = <<>> /\ budget = 0 /\ cuts = 0
    /\ FormatIdle /\ RawIdle /\ VolIdle
    /\ top = <<>>
    /\ InstIdle /\ PurgeIdle /\ ConfIdle

\* erofs_size(&mut input)
Probe ==
    /\ superblock # <<>> /\ erofs_result = <<>>
    /\ erofs_result' = <<erofs_size(superblock)>>
    /\ UNCHANGED <<superblock, devvars, fvars, rawvars, volvars, top, instvars,
                   purgevars, confvars>>

\* erofs_size called once on each superblock
SpecProbe == ProbeInit /\ [][Probe]_vars

\* blocks x 2^blkszbits, exactly
ExactSize(sb) == {b + sb.blkszbits : b \in sb.blocks}

\* C22: for a superblock with valid magic and CRC, erofs_size returns
\* blocks x 2^blkszbits when that value fits 64 bits and fails when it does not,
\* for every u32 blocks and every u8 blkszbits.
C22_ErofsSize ==
    (erofs_result # <<>> /\ superblock.magic = EROFS_SUPER_MAGIC_V1 /\ superblock.cksum_ok)
        => IF ExactSize(superblock) \subseteq (0..63)
           THEN erofs_result[1] = Some(ExactSize(superblock))
           ELSE IsErr(erofs_result[1])

\* What the code does return: the shifted value when it fits, an error when
\* blkszbits is 64 or more, and otherwise the low 64 bits of the value
ErofsSizeFitsOrShiftTooLarge ==
    (erofs_result # <<>> /\ superblock.magic = EROFS_SUPER_MAGIC_V1 /\ superblock.cksum_ok)
        => IF superblock.blkszbits >= 64
           THEN IsErr(erofs_result[1])
           ELSE erofs_result[1] = Some(ExactSize(superblock) \cap (0..63))

\* 2^31 blocks of 2^33 bytes: the size is 2^64, and erofs_size returned Ok(0)
ErofsSizeTruncated ==
    /\ superblock # <<>> /\ superblock.blocks = {31} /\ superblock.blkszbits = 33
    /\ superblock.magic = EROFS_SUPER_MAGIC_V1 /\ superblock.cksum_ok
    /\ erofs_result = <<Some({})>>

(***************************************************************************)
(* The install loop: main of src/src/bin/sdcard.rs and upgrade_bmc of      *)
(* src/src/turing_pi.rs, called by main of src/src/bin/sdcard_userspace.rs. *)
(* A task is taken as a whole: it issues NAND operations and returns Ok or  *)
(* Err.                                                                     *)
(***************************************************************************)
\* `tasks`, in the order of the array
tasks ==
    << "Purging boot0 code", "Analyzing UBI partition", "Formatting UBI partition",
       "Writing rootfs", "Updating bootloader" >>

\* Most erase and program operations a task issues
MaxTaskOps == 2

InstInit ==
    /\ entry \in {"sdcard", "upgrade_bmc"}
    /\ ipc = "ready" /\ itask = 0 /\ running = FALSE
    /\ taskLog = <<>> /\ led = <<>> /\ ops = <<>>
    /\ nand = <<>> /\ budget = 0 /\ cuts = 0
    /\ FormatIdle /\ RawIdle /\ VolIdle
    /\ top = <<>>
    /\ ImgIdle /\ PurgeIdle /\ ConfIdle

\* led_tx.send(LED_READY); main of sdcard.rs then calls wait_for_confirmation,
\* upgrade_bmc calls pre_upgrade
InstReady ==
    /\ ipc = "ready"
    /\ led' = Append(led, "LED_READY")
    /\ ipc' = "confirm"
    /\ UNCHANGED <<entry, itask, running, taskLog, ops>>
    /\ UNCHANGED <<devvars, fvars, rawvars, volvars, top, imgvars, purgevars,
                   confvars>>

\* The confirmation (pre_upgrade) has returned, which it may never do:
\* led_tx.send(LED_BUSY), and the loop over the tasks is entered
InstGo ==
    /\ ipc = "confirm"
    /\ led' = Append(led, "LED_BUSY")
    /\ ipc' = "loop" /\ itask' = 1
    /\ UNCHANGED <<entry, running, taskLog, ops>>
    /\ UNCHANGED <<devvars, fvars, rawvars, volvars, top, imgvars, purgevars,
                   confvars>>

\* for (desc, task) in tasks: task(&mut ctx) is called
TaskCall ==
    /\ ipc = "loop" /\ itask <= Len(tasks) /\ ~running
    /\ running' = TRUE
    /\ UNCHANGED <<entry, ipc, itask, taskLog, led, ops>>
    /\ UNCHANGED <<devvars, fvars, rawvars, volvars, top, imgvars, purgevars,
                   confvars>>

\* The running task issues an erase or a program (scan_blocks only reads)
TaskOp ==
    /\ running /\ tasks[itask] # "Analyzing UBI partition"
    /\ Cardinality({k \in 1..Len(ops) : ops[k] = itask}) < MaxTaskOps
    /\ ops' = Append(ops, itask)
    /\ UNCHANGED <<entry, ipc, itask, running, taskLog, led>>
    /\ UNCHANGED <<devvars, fvars, rawvars, volvars, top, imgvars, purgevars,
                   confvars>>

\* The running task returns Ok(()): the loop goes on
TaskOk ==
    /\ running
    /\ running' = FALSE
    /\ taskLog' = Append(taskLog, <<itask, "Ok">>)
    /\ itask' = itask + 1
    /\ UNCHANGED <<entry, ipc, led, ops>>
    /\ UNCHANGED <<devvars, fvars, rawvars, volvars, top, imgvars, purgevars,
                   confvars>>

\* The running task returns Err(error): howudoin::disable() and
\* thread::sleep(10 ms)
TaskErr ==
    /\ running
    /\ running' = FALSE
    /\ taskLog' = Append(taskLog, <<itask, "Err">>)
    /\ ipc' = "failed"
    /\ UNCHANGED <<entry, itask, led, ops>>
    /\ UNCHANGED <<devvars, fvars, rawvars, volvars, top, imgvars, purgevars,
                   confvars>>

\* After the sleep: main of sdcard.rs sends LED_ERROR and waits forever;
\* upgrade_bmc returns Err(error), which main of sdcard_userspace.rs returns in
\* turn
InstFail ==
    /\ ipc = "failed"
    /\ IF entry = "sdcard"
       THEN led' = Append(led, "LED_ERROR") /\ ipc' = "wait_forever"
       ELSE led' = led /\ ipc' = "returned"
    /\ UNCHANGED <<entry, itask, running, taskLog, ops>>
    /\ UNCHANGED <<devvars, fvars, rawvars, volvars, top, imgvars, purgevars,
                   confvars>>

\* The loop is over: rpt.finish(), howudoin::disable(), the sleep,
\* led_tx.send(LED_DONE), then wait_forever() or Ok(())
InstDone ==
    /\ ipc = "loop" /\ itask > Len(tasks)
    /\ led' = Append(led, "LED_DONE")
    /\ ipc' = IF entry = "sdcard" THEN "wait_forever" ELSE "returned"
    /\ UNCHANGED <<entry, itask, running, taskLog, ops>>
    /\ UNCHANGED <<devvars, fvars, rawvars, volvars, top, imgvars, purgevars,
                   confvars>>

InstNext ==
    InstReady \/ InstGo \/ TaskCall \/ TaskOp \/ TaskOk \/ TaskErr \/ InstFail \/ InstDone

SpecInstall == InstInit /\ [][InstNext]_vars

\* A task has returned an error
TaskFailed == taskLog # <<>> /\ taskLog[Len(taskLog)][2] = "Err"

\* The tasks that returned are tasks 1, 2, ... in the order of the array, and all
\* but the last returned Ok
TasksInOrder ==
    \A k \in 1..Len(taskLog) :
        taskLog[k][1] = k /\ (k < Len(taskLog) => taskLog[k][2] = "Ok")

\* The NAND operations are issued task by task: never by a task that has not
\* been called, nor by one that has returned
OpsInOrder ==
    /\ \A i, j \in 1..Len(ops) : i < j => ops[i] <= ops[j]
    /\ \A i \in 1..Len(ops) : ops[i] <= Len(taskLog) + (IF running THEN 1 ELSE 0)

\* Once a task has returned an error nothing runs any more
StopsAfterError ==
    TaskFailed => (~running' /\ taskLog' = taskLog /\ ops' = ops /\ itask' = itask)

\* The install loop has ended: main waits forever, or upgrade_bmc has returned
InstEnded == ipc \in {"wait_forever", "returned"}

\* Once the loop has ended on an error, the error pattern is the last message
\* sent on the blink channel
ErrorSignalled ==
    (TaskFailed /\ InstEnded) => (led # <<>> /\ led[Len(led)] = "LED_ERROR")

\* C24: the install tasks run strictly in the order purge boot0, scan, format,
\* write volumes, write bootloader, each starting only after the previous one
\* returned Ok; when a task returns an error no later task runs, no further NAND
\* erase or program is issued, and the error pattern is sent on the blink channel.
C24_InstallOrder ==
    /\ [](TasksInOrder /\ OpsInOrder /\ ErrorSignalled)
    /\ [][StopsAfterError]_vars

\* The same without the blink channel
InstallOrderAndStop ==
    /\ [](TasksInOrder /\ OpsInOrder)
    /\ [][StopsAfterError]_vars

\* main of sdcard.rs does send the error pattern
SdcardSignalsError == entry = "sdcard" => ErrorSignalled

\* main of sdcard.rs sleeps after a task returned an error: the error pattern has
\* not been sent yet, LED_BUSY is the last message on the blink channel
SdcardErrorNotYetSignalled ==
    /\ entry = "sdcard" /\ TaskFailed /\ ipc = "failed"
    /\ led = <<"LED_READY", "LED_BUSY">>

\* upgrade_bmc has returned the error of the fourth task, after that task issued
\* NAND operations, and LED_BUSY is the last message on the blink channel
UpgradeBmcReturnsSilently ==
    /\ entry = "upgrade_bmc" /\ ipc = "returned"
    /\ taskLog = <<<<1, "Ok">>, <<2, "Ok">>, <<3, "Ok">>, <<4, "Err">>>>
    /\ \E k \in 1..Len(ops) : ops[k] = 4
    /\ led = <<"LED_READY", "LED_BUSY">>

(***************************************************************************)
(* wait_for_confirmation of src/src/bin/sdcard.rs: the main thread and the *)
(* two threads it spawns, one on confirm_prompt and one on                 *)
(* confirm_keypress.  thread::park() returns when the token of the main    *)
(* thread is set, and takes it; it may also return spuriously.  A thread   *)
(* is_finished() only after its closure has returned, which is after its   *)
(* unpark().  After wait_for_confirmation the install loop of main runs.   *)
(***************************************************************************)
ConfThreads == 1..2

\* main of sdcard.rs has sent LED_READY and calls wait_for_confirmation, which
\* has spawned its two threads
ConfInit ==
    /\ entry = "sdcard" /\ ipc = "confirm" /\ itask = 0 /\ running = FALSE
    /\ taskLog = <<>> /\ led = <<"LED_READY">> /\ ops = <<>>
    /\ threads = [t \in ConfThreads |-> TRUE]
    /\ cpc = [t \in ConfThreads |-> "run"]
    /\ cret = [t \in ConfThreads |-> <<>>]
    /\ stop_flag = FALSE /\ token = FALSE /\ wpc = "park" /\ widx = 0 /\ early = 0
    /\ nand = <<>> /\ budget = 0 /\ cuts = 0
    /\ FormatIdle /\ RawIdle /\ VolIdle
    /\ top = <<>>
    /\ ImgIdle /\ PurgeIdle

\* A step of a spawned thread: confirm_prompt or confirm_keypress returns (true
\* on the keyword or the third key press; false on the stop flag, on end of input
\* or on a device error), then main_thread.unpark(), then the closure returns
ConfirmThread(t) ==
    /\ wpc # ""
    /\ \/ /\ cpc[t] = "run"
          /\ \E ret \in BOOLEAN :
                cret' = [cret EXCEPT ![t] = <<ret>>]
          /\ cpc' = [cpc EXCEPT ![t] = "ret"]
          /\ UNCHANGED <<token, early>>
       \/ /\ cpc[t] = "ret"
          /\ token' = TRUE
          /\ early' = IF wpc = "park" THEN early + 1 ELSE early
          /\ cpc' = [cpc EXCEPT ![t] = "unparked"]
          /\ UNCHANGED cret
       \/ /\ cpc[t] = "unparked"
          /\ cpc' = [cpc EXCEPT ![t] = "finished"]
          /\ UNCHANGED <<cret, token, early>>
    /\ UNCHANGED <<threads, stop_flag, wpc, widx>>
    /\ UNCHANGED <<devvars, fvars, rawvars, volvars, top, imgvars, instvars,
                   purgevars>>

\* The next `thread` of `for thread in &mut threads` inside `loop`
NextThread(i) == IF i = 2 THEN 1 ELSE i + 1

\* A wait_for_confirmation that returns after any thread it joins
WaitForConfirmationAnyRet ==
    /\ \/ /\ wpc \in {"park", "park_in_loop"}
          /\ token' \in {FALSE, token}
          /\ wpc' = "for"
          /\ widx' = IF wpc = "park" THEN 1 ELSE NextThread(widx)
          /\ UNCHANGED <<threads, stop_flag, instvars>>
       \/ /\ wpc = "for"
          /\ IF threads[widx] /\ cpc[widx] = "finished"
             THEN /\ threads' = [threads EXCEPT ![widx] = FALSE]
                  /\ stop_flag' = TRUE
                  /\ wpc' = "returned"
                  /\ led' = Append(led, "LED_BUSY")
                  /\ ipc' = "loop" /\ itask' = 1
                  /\ UNCHANGED <<widx, entry, running, taskLog, ops>>
             ELSE /\ widx' = NextThread(widx)
                  /\ UNCHANGED <<threads, stop_flag, wpc, instvars>>
          /\ UNCHANGED token
    /\ UNCHANGED <<cpc, cret, early>>
    /\ UNCHANGED <<devvars, fvars, rawvars, volvars, top, imgvars, purgevars>>

\* A step of the main thread in wait_for_confirmation: thread::park() returns,
\* or one `thread` of the for loop is looked at and, if finished, taken and
\* joined; on `ret`, the flag is stored and the function returns to main, which
\* sends LED_BUSY and enters its loop over the tasks
WaitForConfirmation ==
    /\ \/ /\ wpc \in {"park", "park_in_loop"}
          /\ token' \in {FALSE, token}
          /\ wpc' = "for"
          /\ widx' = IF wpc = "park" THEN 1 ELSE NextThread(widx)
          /\ UNCHANGED <<threads, stop_flag, instvars>>
       \/ /\ wpc = "for"
          /\ IF threads[widx] /\ cpc[widx] = "finished"
             THEN /\ threads' = [threads EXCEPT ![widx] = FALSE]
                  /\ IF cret[widx][1]
                     THEN /\ stop_flag' = TRUE
                          /\ wpc' = "returned"
                          /\ led' = Append(led, "LED_BUSY")
                          /\ ipc' = "loop" /\ itask' = 1
                          /\ UNCHANGED <<widx, entry, running, taskLog, ops>>
                     ELSE /\ wpc' = "park_in_loop"
                          /\ UNCHANGED <<widx, stop_flag, instvars>>
             ELSE /\ widx' = NextThread(widx)
                  /\ UNCHANGED <<threads, stop_flag, wpc, instvars>>
          /\ UNCHANGED token
    /\ UNCHANGED <<cpc, cret, early>>
    /\ UNCHANGED <<devvars, fvars, rawvars, volvars, top, imgvars, purgevars>>

ConfNext ==
    \/ \E t \in ConfThreads : ConfirmThread(t)
    \/ WaitForConfirmation
    \/ TaskCall \/ TaskOp \/ TaskOk \/ TaskErr \/ InstFail \/ InstDone

\* main of sdcard.rs from wait_for_confirmation on, with its two threads
SpecConfirm == ConfInit /\ [][ConfNext]_vars

\* A task of the install loop has been called
InstallStarted == itask > 0 \/ running \/ taskLog # <<>> \/ ops # <<>>

\* The thread has returned true, its closure is over and it has been joined
ConfirmedBy(t) == cpc[t] = "finished" /\ cret[t] = <<TRUE>> /\ ~threads[t]

\* Both threads have ended, and neither returned true
BothEndedUnconfirmed ==
    \A t \in ConfThreads : cpc[t] # "run" /\ cret[t] = <<FALSE>>

\* C40: in the SD-card installer no install task, and hence no NAND erase or
\* program, starts before wait_for_confirmation returns, and it returns only
\* after one of the two confirmation threads has returned true; if both threads
\* end without confirming it never returns.  This holds under every interleaving
\* of the two threads with the main thread, unparks before the park included.
C40_InstallOnlyAfterConfirmation ==
    /\ InstallStarted => wpc = "returned"
    /\ wpc = "returned" => \E t \in ConfThreads : ConfirmedBy(t)
    /\ BothEndedUnconfirmed => (wpc # "returned" /\ ~InstallStarted)
    /\ stop_flag => wpc = "returned"

\* Both threads made their unpark before the first park of the main thread
\* returned, one of them without confirming; wait_for_confirmation has returned
\* and a task has issued a NAND operation
C40_Witness ==
    /\ early = 2 /\ wpc = "returned" /\ ops # <<>>
    /\ \E t \in ConfThreads : cret[t] = <<FALSE>>

\* Both threads have ended without confirming and the main thread is parked in
\* the loop, the token taken
ParkedUnconfirmed ==
    /\ \A t \in ConfThreads : cpc[t] = "finished" /\ cret[t] = <<FALSE>>
    /\ wpc = "park_in_loop" /\ ~token

\* The keypress thread has confirmed and ended, and the main thread, which joined
\* the prompt thread first, is parked in the loop with the token taken: the two
\* unparks left one token
ConfirmedButParked ==
    /\ cpc[2] = "finished" /\ cret[2] = <<TRUE>> /\ threads[2]
    /\ cpc[1] = "finished" /\ cret[1] = <<FALSE>> /\ ~threads[1]
    /\ wpc = "park_in_loop" /\ ~token

(***************************************************************************)
(* purge_boot0 (src/src/format/mod.rs).  A page <<"egon", magic, marker>>  *)
(* holds `magic` in bytes 0x04..0x0c and `marker` in bytes 0x14..0x17; the *)
(* pages of the boot partition are longer than 0x17 bytes.                 *)
(***************************************************************************)
EgonPage(magic, marker) == <<"egon", magic, marker>>

\* An is_boot0 that does not look for the SPL marker
is_boot0_any_egon(buffer) ==
    IF buffer[1] # "egon" THEN Some(FALSE) ELSE Some(buffer[2] = "eGON.BT0")

\* is_boot0
is_boot0(buffer) ==
    IF buffer[1] # "egon" THEN Some(FALSE)      \* other bytes at 0x04..0x0c
    ELSE IF buffer[2] # "eGON.BT0" THEN Some(FALSE)
    ELSE IF buffer[3] = "SPL" THEN Some(FALSE)
    ELSE Some(TRUE)

\* What a block of the boot partition may hold ("..." being bytes other than SPL)
BootInitBlocks ==
    { NewBlock,
      mark_bad(NewBlock),
      [NewBlock EXCEPT !.data = <<EgonPage("eGON.BT0", "..."), DataPage(1)>>],
      [NewBlock EXCEPT !.data = <<EgonPage("eGON.BT0", "SPL"), DataPage(1)>>],
      [NewBlock EXCEPT !.data = <<EgonPage("eGON.BT1", "...")>>],
      [NewBlock EXCEPT !.data = <<DataPage(1), EgonPage("eGON.BT0", "...")>>],
      [NewBlock EXCEPT !.data = <<ErasedPage, EgonPage("eGON.BT0", "...")>>] }

PurgeInit ==
    /\ nand \in [0..(BootBlocks - 1) -> BootInitBlocks]
    /\ budget = MaxFaults
    /\ cuts = 0
    /\ FormatIdle /\ RawIdle /\ VolIdle
    /\ top = <<>>
    /\ ImgIdle /\ InstIdle /\ ConfIdle
    /\ purge_index = 0 /\ any_erased = FALSE /\ ppc = "loop" /\ pres = <<>>
    /\ prun = 1 /\ purged = {} /\ nand0 = nand /\ prevPurged = <<>>

\* purge_boot0: one iteration of the loop over the blocks; erase() may fail
PurgeStep ==
    /\ ppc = "loop" /\ purge_index < Cardinality(DOMAIN nand)
    /\ LET h == block(nand, purge_index) IN
       IF h # None /\ is_boot0(read_page(h[1], BootPagesPerBlock, 0)) = Some(TRUE)
       THEN \/ /\ nand' = [nand EXCEPT ![purge_index] = erase(h[1])]
               /\ any_erased' = TRUE
               /\ purged' = purged \cup {purge_index}
               /\ purge_index' = purge_index + 1
               /\ UNCHANGED <<budget, ppc, pres>>
            \/ /\ budget >= 1
               /\ budget' = budget - 1
               /\ pres' = Err /\ ppc' = "done"
               /\ UNCHANGED <<nand, any_erased, purged, purge_index>>
       ELSE /\ purge_index' = purge_index + 1
            /\ UNCHANGED <<nand, budget, any_erased, purged, ppc, pres>>
    /\ UNCHANGED <<cuts, prun, nand0, prevPurged>>
    /\ UNCHANGED <<fvars, rawvars, volvars, top, imgvars, instvars, confvars>>

\* purge_boot0: Ok(any_erased)
PurgeReturn ==
    /\ ppc = "loop" /\ purge_index >= Cardinality(DOMAIN nand)
    /\ pres' = <<"Ok", any_erased>> /\ ppc' = "done"
    /\ UNCHANGED <<purge_index, any_erased, prun, purged, nand0, prevPurged>>
    /\ UNCHANGED <<devvars, fvars, rawvars, volvars, top, imgvars, instvars,
                   confvars>>

\* purge_boot0 is called again on the same NAND
PurgeAgain ==
    /\ ppc = "done" /\ prun < MaxRuns
    /\ prun' = prun + 1
    /\ prevPurged' = IF pres[1] = "Ok" THEN <<purged>> ELSE <<>>
    /\ nand0' = nand
    /\ purge_index' = 0 /\ any_erased' = FALSE /\ purged' = {} /\ pres' = <<>>
    /\ ppc' = "loop"
    /\ UNCHANGED <<devvars, fvars, rawvars, volvars, top, imgvars, instvars,
                   confvars>>

PurgeNext == PurgeStep \/ PurgeReturn \/ PurgeAgain

SpecPurge == PurgeInit /\ [][PurgeNext]_vars

\* The good blocks of n whose page 0 carries the eGON.BT0 magic and no SPL marker
Boot0Blocks(n) ==
    {b \in DOMAIN n :
        /\ ~n[b].marked_bad
        /\ Len(n[b].data) >= 1
        /\ n[b].data[1][1] = "egon"
        /\ n[b].data[1][2] = "eGON.BT0" /\ n[b].data[1][3] # "SPL"}

\* purge_boot0 has returned Ok
PurgeOk == ppc = "done" /\ pres[1] = "Ok"

\* C25: when purge_boot0 returns Ok it has erased exactly the good blocks whose
\* page 0 carries the eGON.BT0 magic without the SPL marker and left every other
\* block as it was, a block with a U-Boot SPL header included; it returns true iff
\* it erased at least one block; called again right after an Ok it erases nothing
\* and returns false.
C25_PurgeBoot0 ==
    PurgeOk =>
        /\ purged = Boot0Blocks(nand0)
        /\ \A b \in DOMAIN nand :
              nand[b] = IF b \in Boot0Blocks(nand0) THEN erase(nand0[b]) ELSE nand0[b]
        /\ pres[2] = (purged # {})
        /\ prevPurged # <<>> => (purged = {} /\ pres[2] = FALSE /\ nand = nand0)

\* The second call has returned false on a NAND where the first erased a boot0
\* block and left a block with a U-Boot SPL header
C25_Witness ==
    /\ PurgeOk /\ prun = 2 /\ pres = <<"Ok", FALSE>>
    /\ prevPurged # <<>> /\ prevPurged[1] # {}
    /\ \E b \in DOMAIN nand :
          Len(nand[b].data) >= 1 /\ nand[b].data[1] = EgonPage("eGON.BT0", "SPL")

(***************************************************************************)
(* The placement selector of write_volumes (block_ordering) on its own,    *)
(* drained pick by pick over Ebts with more candidates than SpecVol has.   *)
(***************************************************************************)
\* Blocks of the Ebt the selector is built from
MaxSelBlocks == 8

\* Ebts of MaxSelBlocks blocks: EcErased with one of three erase counts, and at
\* most one block that is no candidate
SelEbts ==
    {e \in [0..(MaxSelBlocks - 1) -> {EcErased(FormattedEc(c)) : c \in 1..3} \cup {Bad}] :
        Cardinality({i \in DOMAIN e : e[i] = Bad}) <= 1}

SelInit ==
    /\ ebt \in SelEbts
    /\ blocks_by_ec = build_blocks_by_ec(ebt)
    /\ bucket = <<>> /\ block_id = 0 /\ vpc = "select" /\ vres = "none"
    /\ volumes = <<>> /\ ubinizer = <<>> /\ vdata = <<>> /\ vvid = <<>>
    /\ sel_ec = <<>> /\ tried_erase = FALSE /\ vlog = <<>> /\ badLog = <<>>
    /\ nand = <<>> /\ budget = 0 /\ cuts = 0
    /\ fpc = "idle" /\ proto = None /\ migrating = FALSE
    /\ work = <<>> /\ ebt0 = <<>> /\ execLog = <<>> /\ fres = "none" /\ round = 0
    /\ prevScan = <<>> /\ lastScan = <<>> /\ failed = {} /\ lastOps = <<>>
    /\ RawIdle /\ OpIdle

\* block_ordering.next(), and the "Flash is full" error when it is exhausted
Pick ==
    /\ vpc = "select"
    /\ LET n == ordering_next(blocks_by_ec, bucket) IN
       /\ blocks_by_ec' = n.m
       /\ bucket' = n.bucket
       /\ IF n.block = None
          THEN vres' = "err" /\ vpc' = "end" /\ UNCHANGED block_id
          ELSE block_id' = n.block[1] /\ UNCHANGED <<vres, vpc>>
    /\ UNCHANGED <<devvars, fvars, rawvars, opvars, volumes, ubinizer, vdata, vvid,
                   sel_ec, tried_erase, vlog, badLog>>

SpecSelect == SelInit /\ [][Pick]_vars

RECURSIVE CumLen(_, _)
\* The number of blocks in the buckets of m with erase count k or less
CumLen(m, k) ==
    IF k < 1 THEN 0
    ELSE (IF k \in DOMAIN m THEN Len(m[k]) ELSE 0) + CumLen(m, k - 1)

\* floor(remaining candidates x 25 / 100)
Threshold(m) ==
    LET last == CHOOSE k \in DOMAIN m : \A j \in DOMAIN m : j <= k
    IN (CumLen(m, last) * 25) \div 100

\* Walking the buckets in ascending order and subtracting their sizes from the
\* threshold stops at the first bucket up to which the sizes add up to at least
\* the threshold
ClaimedBucket(m) ==
    CHOOSE k \in DOMAIN m :
        /\ CumLen(m, k) >= Threshold(m)
        /\ \A j \in DOMAIN m : j < k => CumLen(m, j) < Threshold(m)

\* C28: a pick that starts a bucket computes threshold = floor(remaining
\* candidates x 25 / 100), walks the erase-count buckets in ascending order
\* subtracting each bucket's size from the threshold until a bucket with size >=
\* threshold is found, yields the blocks of that bucket, in block order, and
\* removes the bucket from the map before the next pick.
C28_PercentilePick ==
    [][(vpc = "select" /\ bucket = <<>> /\ DOMAIN blocks_by_ec # {}) =>
          LET k == ClaimedBucket(blocks_by_ec) IN
          /\ block_id' = blocks_by_ec[k][1]
          /\ bucket' = Tail(blocks_by_ec[k])
          /\ blocks_by_ec[k] = Ascending({i \in DOMAIN ebt : ebt[i] = EcErased(FormattedEc(k))})
          /\ DOMAIN blocks_by_ec' = (DOMAIN blocks_by_ec) \ {k}
          /\ \A j \in DOMAIN blocks_by_ec' : blocks_by_ec'[j] = blocks_by_ec[j]]_vars
    /\ [][(vpc = "select" /\ bucket # <<>>) =>
            (block_id' = Head(bucket) /\ bucket' = Tail(bucket)
             /\ blocks_by_ec' = blocks_by_ec)]_vars

\* A pick has skipped the bucket of the lowest erase count, smaller than the
\* threshold, and has started the second bucket
C28_Witness ==
    /\ vpc = "select"
    /\ DOMAIN blocks_by_ec = {1, 3} /\ Len(blocks_by_ec[1]) = 1
    /\ ebt[block_id] = EcErased(FormattedEc(2))
    /\ Cardinality({i \in DOMAIN ebt : ebt[i] = EcErased(FormattedEc(2))}) = Len(bucket) + 1

====
